---------------------------- MODULE Spec2Model ----------------------------
(***************************************************************************)
(* A model of extproctor: the ExtProc client driver (client.Process), the  *)
(* expectation comparator (comparator.Compare), the golden-file conversion *)
(* and the test runner (runner.Run).                                       *)
(*                                                                         *)
(* Conventions.  A Go pointer or optional message is a sequence of length  *)
(* 0 (nil) or 1 (the value).  A Go map is a function whose domain is the   *)
(* set of its keys.  A Go string or byte slice is a TLA+ string, except    *)
(* where the code looks at its characters (glob patterns, tags): there it  *)
(* is a sequence of one-character strings.                                 *)
(***************************************************************************)
EXTENDS Integers, Sequences, FiniteSets, TLC

VARIABLES
    req,        \* client: the HttpRequest given to Process
    cpc,        \* client: position of Process
    stream,     \* client: history of the calls made on the gRPC stream
    cresult,    \* client: result.Responses collected so far
    cret,       \* client: what Process returned, Nil until it returns
    cmpExpectations,    \* comparator: the expectations given to Compare
    cmpResponses,       \* comparator: result.Responses given to Compare
    report,             \* comparator: the ComparisonResult, Nil before the call
    runner,     \* runner: the Runner: its client (the outcomes the processor behind
                \* it can give) and its options (parallel, filter, tags, updateGolden)
    manifests,  \* runner: the loaded manifests given to Run
    testCases,  \* runner: the test cases Run collected
    rpc,        \* runner: position of the goroutine that called Run
    idx,        \* runner: index of the test case the scheduling loop is at
    ctxDone,    \* runner: the run's context has been cancelled
    sem,        \* runner: number of tokens in the semaphore channel
    wg,         \* runner: the WaitGroup counter
    work,       \* runner: per collected test case, its execution
    results,    \* runner: the Results that Run builds and returns
    golden,     \* runner: the golden files, by path (Nil: no readable file)
    suite,      \* runner: the reporter's suite events: StartSuite and EndSuite
    summary,    \* runner: the counters Run has read for the SuiteSummary so far
    ret         \* runner: what Run returned, Nil until it returns

clientVars == <<req, cpc, stream, cresult, cret>>

cmpVars == <<cmpExpectations, cmpResponses, report>>

runVars ==
    <<runner, manifests, testCases, rpc, idx, ctxDone, sem, wg, work, results,
      golden, suite, summary, ret>>

vars == <<clientVars, cmpVars, runVars>>

\* what the actions of one component leave unchanged
nonClientVars == <<cmpVars, runVars>>

nonCmpVars == <<clientVars, runVars>>

nonRunVars == <<clientVars, cmpVars>>

-----------------------------------------------------------------------------
(* Optional values *)

Nil == <<>>

Some(x) == <<x>>

IsNil(o) == Len(o) = 0

Get(o) == o[1]

\* len(m) of a map
MapLen(m) == Cardinality(DOMAIN m)

-----------------------------------------------------------------------------
(* The components that a specification leaves unused *)

ClientIdle ==
    /\ req = <<>>
    /\ cpc = "idle"
    /\ stream = <<>>
    /\ cresult = <<>>
    /\ cret = Nil

CompareIdle ==
    /\ cmpExpectations = <<>>
    /\ cmpResponses = <<>>
    /\ report = Nil

RunnerIdle ==
    /\ runner = <<>>
    /\ manifests = <<>>
    /\ testCases = <<>>
    /\ rpc = "idle"
    /\ idx = 0
    /\ ctxDone = FALSE
    /\ sem = 0
    /\ wg = 0
    /\ work = <<>>
    /\ results = <<>>
    /\ golden = <<>>
    /\ suite = <<>>
    /\ summary = Nil
    /\ ret = Nil

-----------------------------------------------------------------------------
(* Bounds of the model *)

\* longest request body, in bytes
MaxBody == 1

\* largest number of request trailers
MaxTrailers == 1

-----------------------------------------------------------------------------
(* Protocol data: phases and ProcessingResponse values *)

REQUEST_HEADERS == "REQUEST_HEADERS"

REQUEST_BODY == "REQUEST_BODY"

REQUEST_TRAILERS == "REQUEST_TRAILERS"

RESPONSE_HEADERS == "RESPONSE_HEADERS"

RESPONSE_BODY == "RESPONSE_BODY"

RESPONSE_TRAILERS == "RESPONSE_TRAILERS"

RequestPhases == {REQUEST_HEADERS, REQUEST_BODY, REQUEST_TRAILERS}

ResponsePhases == {RESPONSE_HEADERS, RESPONSE_BODY, RESPONSE_TRAILERS}

\* the oneof variants of extprocv3.ProcessingResponse ("none": no variant set)
RespKinds ==
    {"request_headers", "response_headers", "request_body", "response_body",
     "request_trailers", "response_trailers", "immediate_response", "none"}

\* A ProcessingResponse.  common: the CommonResponse of a headers or body
\* response; hm: the HeaderMutation of a trailers response; status, body,
\* headers: the fields of an ImmediateResponse.
MkResp(kind, common, hm, status, body, headers) ==
    [kind |-> kind, common |-> common, hm |-> hm,
     status |-> status, body |-> body, headers |-> headers]

BareResp(kind) == MkResp(kind, Nil, Nil, Nil, "", Nil)

PhaseResponse(phase, resp) == [Phase |-> phase, Response |-> resp]

\* a driver that never recognises a short-circuit
isImmediateResponseNever(resp) == FALSE

\* resp.GetImmediateResponse() != nil
isImmediateResponse(resp) == resp.kind = "immediate_response"

-----------------------------------------------------------------------------
(* comparator: data *)

Keys == {"k1", "k2"}

Values == {"v", "w"}

\* the orders in which a Go range statement may walk a map with these keys
KeyOrders == {<<"k1", "k2">>, <<"k2", "k1">>}

\* the order fmt prints map keys in
SortedKeys == <<"k1", "k2">>

\* the keys of map m in iteration order ord
RangeKeys(m, ord) == SelectSeq(ord, LAMBDA k : k \in DOMAIN m)

\* one comparison of an expectation with a response walks at most two maps
\* (a headers expectation: the set_headers of its nested header mutation,
\* then its own set_headers; a trailers or immediate expectation: one map);
\* each range statement gets an iteration order of its own
WalkOrders == [1..2 -> KeyOrders]

SeqRange(s) == {s[i] : i \in 1..Len(s)}

RECURSIVE Flatten(_)
Flatten(ss) == IF ss = <<>> THEN <<>> ELSE Head(ss) \o Flatten(Tail(ss))

RECURSIVE JoinWith(_, _)
JoinWith(ss, sep) ==
    IF ss = <<>> THEN ""
    ELSE IF Len(ss) = 1 THEN ss[1]
    ELSE ss[1] \o sep \o JoinWith(Tail(ss), sep)

\* fmt.Sprintf("%v", m) of a map[string]string
FmtMap(m) ==
    LET ks == RangeKeys(m, SortedKeys)
    IN  "map[" \o JoinWith([i \in 1..Len(ks) |-> ks[i] \o ":" \o m[ks[i]]], " ") \o "]"

\* fmt.Sprintf("%T", resp.Response)
TypeName(kind) ==
    CASE kind = "request_headers" -> "*ext_procv3.ProcessingResponse_RequestHeaders"
      [] kind = "response_headers" -> "*ext_procv3.ProcessingResponse_ResponseHeaders"
      [] kind = "request_body" -> "*ext_procv3.ProcessingResponse_RequestBody"
      [] kind = "response_body" -> "*ext_procv3.ProcessingResponse_ResponseBody"
      [] kind = "request_trailers" -> "*ext_procv3.ProcessingResponse_RequestTrailers"
      [] kind = "response_trailers" -> "*ext_procv3.ProcessingResponse_ResponseTrailers"
      [] kind = "immediate_response" -> "*ext_procv3.ProcessingResponse_ImmediateResponse"
      [] OTHER -> "<nil>"

\* corev3.HeaderValueOption: Header is nil or a (Key, Value) pair
HeaderValueOption(k, v) == [Header |-> Some([Key |-> k, Value |-> v])]

EmptyHeaderValueOption == [Header |-> Nil]

\* envoy HeaderMutation: SetHeaders is a list of HeaderValueOption,
\* RemoveHeaders a list of keys
HeaderMutation(set, remove) == [SetHeaders |-> set, RemoveHeaders |-> remove]

\* envoy BodyMutation: the oneof is "body", "clear_body" or "none"
BodyMutation(mutation, body, clear) == [mutation |-> mutation, body |-> body, clear |-> clear]

\* bodyMut.GetBody()
GetBody(bm) == IF bm.mutation = "body" THEN bm.body ELSE ""

\* bodyMut.GetClearBody()
GetClearBody(bm) == bm.mutation = "clear_body" /\ bm.clear

\* envoy CommonResponse
CommonResponse(hm, bm) == [HeaderMutation |-> hm, BodyMutation |-> bm]

\* extproctorv1.ExtProcExpectation: kind is the oneof set in Response
\* ("none": Response is nil); every record carries the fields of all kinds
MkExp(phase, kind, set, remove, common, body, clear, strailers, rtrailers, status, headers) ==
    [Phase |-> phase, kind |-> kind,
     SetHeaders |-> set, RemoveHeaders |-> remove, CommonResponse |-> common,
     Body |-> body, ClearBody |-> clear,
     SetTrailers |-> strailers, RemoveTrailers |-> rtrailers,
     StatusCode |-> status, Headers |-> headers]

EmptyMap == <<>>

HeadersExp(phase, set, remove, common) ==
    MkExp(phase, "headers_response", set, remove, common, "", FALSE, EmptyMap, <<>>, 0, EmptyMap)

BodyExp(phase, body, clear) ==
    MkExp(phase, "body_response", EmptyMap, <<>>, Nil, body, clear, EmptyMap, <<>>, 0, EmptyMap)

TrailersExp(phase, set, remove) ==
    MkExp(phase, "trailers_response", EmptyMap, <<>>, Nil, "", FALSE, set, remove, 0, EmptyMap)

ImmediateExp(phase, status, body, headers) ==
    MkExp(phase, "immediate_response", EmptyMap, <<>>, Nil, body, FALSE, EmptyMap, <<>>, status, headers)

NoExp(phase) ==
    MkExp(phase, "none", EmptyMap, <<>>, Nil, "", FALSE, EmptyMap, <<>>, 0, EmptyMap)

\* the expected header mutation nested in HeadersExpectation.CommonResponse
ExpHeaderMutation(set, remove) == [SetHeaders |-> set, RemoveHeaders |-> remove]

ExpCommonResponse(hm) == [HeaderMutation |-> hm]

Difference(phase, path, expected, actual) ==
    [Phase |-> phase, Path |-> path, Expected |-> expected, Actual |-> actual]

-----------------------------------------------------------------------------
(* comparator: the field comparisons *)

\* index of the first entry of list with h.Header != nil && h.Header.Key == k,
\* 0 when there is none (the inner loop with its break)
RECURSIVE FirstWithKey(_, _, _)
FirstWithKey(list, k, i) ==
    IF i > Len(list) THEN 0
    ELSE IF ~IsNil(list[i].Header) /\ Get(list[i].Header).Key = k THEN i
    ELSE FirstWithKey(list, k, i + 1)

\* the body of "for k, v := range exp" for one key
SetHeaderDiff(phase, path, k, v, list) ==
    LET i == FirstWithKey(list, k, 1)
    IN  IF i = 0
        THEN <<Difference(phase, path \o "[" \o k \o "]", v, "<not set>")>>
        ELSE IF Get(list[i].Header).Value # v
        THEN <<Difference(phase, path \o "[" \o k \o "]", v, Get(list[i].Header).Value)>>
        ELSE <<>>

\* "for k, v := range exp { ... }" over the map exp, walked in order ord
SetHeadersLoop(phase, path, exp, list, ord) ==
    LET ks == RangeKeys(exp, ord)
    IN  Flatten([i \in 1..Len(ks) |-> SetHeaderDiff(phase, path, ks[i], exp[ks[i]], list)])

\* "for _, k := range exp { ... }" over the list of keys to remove
RemoveHeadersLoop(phase, path, exp, list) ==
    Flatten([i \in 1..Len(exp) |->
        IF exp[i] \in SeqRange(list) THEN <<>>
        ELSE <<Difference(phase, path \o "[" \o exp[i] \o "]", "removed", "<not removed>")>>])

\* resp == nil || resp.HeaderMutation == nil
NoHeaderMutation(resp) == IsNil(resp) \/ IsNil(Get(resp).HeaderMutation)

compareHeaderMutation(phase, exp, resp, ord) ==
    IF NoHeaderMutation(resp)
    THEN IF MapLen(exp.SetHeaders) > 0 \/ Len(exp.RemoveHeaders) > 0
         THEN <<Difference(phase, "header_mutation", "present", "nil")>>
         ELSE <<>>
    ELSE LET hm == Get(Get(resp).HeaderMutation)
         IN  SetHeadersLoop(phase, "header_mutation.set_headers", exp.SetHeaders, hm.SetHeaders, ord)
             \o RemoveHeadersLoop(phase, "header_mutation.remove_headers", exp.RemoveHeaders, hm.RemoveHeaders)

compareSetHeaders(phase, exp, resp, ord) ==
    IF NoHeaderMutation(resp)
    THEN IF MapLen(exp) > 0
         THEN <<Difference(phase, "set_headers", FmtMap(exp), "<no header mutation>")>>
         ELSE <<>>
    ELSE SetHeadersLoop(phase, "set_headers", exp, Get(Get(resp).HeaderMutation).SetHeaders, ord)

compareRemoveHeaders(phase, exp, resp) ==
    IF NoHeaderMutation(resp)
    THEN IF Len(exp) > 0
         THEN <<Difference(phase, "remove_headers", JoinWith(exp, ", "), "<no header mutation>")>>
         ELSE <<>>
    ELSE RemoveHeadersLoop(phase, "remove_headers", exp, Get(Get(resp).HeaderMutation).RemoveHeaders)

compareHeadersResponse(phase, exp, resp, ord) ==
    IF resp.kind \notin {"request_headers", "response_headers"}
    THEN <<Difference(phase, "response_type", "headers_response", TypeName(resp.kind))>>
    ELSE (IF ~IsNil(exp.CommonResponse) /\ ~IsNil(Get(exp.CommonResponse).HeaderMutation)
          THEN compareHeaderMutation(phase, Get(Get(exp.CommonResponse).HeaderMutation), resp.common, ord[1])
          ELSE <<>>)
         \o (IF MapLen(exp.SetHeaders) > 0
             THEN compareSetHeaders(phase, exp.SetHeaders, resp.common, ord[2])
             ELSE <<>>)
         \o (IF Len(exp.RemoveHeaders) > 0
             THEN compareRemoveHeaders(phase, exp.RemoveHeaders, resp.common)
             ELSE <<>>)

\* a body comparison that never looks at the variant of the response
compareBodyResponseAnyKind(phase, exp, resp) ==
    IF exp.ClearBody /\ ~IsNil(resp.common) /\ IsNil(Get(resp.common).BodyMutation)
    THEN <<Difference(phase, "body.clear_body", "true", "false")>>
    ELSE <<>>

compareBodyResponse(phase, exp, resp) ==
    IF resp.kind \notin {"request_body", "response_body"}
    THEN <<Difference(phase, "response_type", "body_response", TypeName(resp.kind))>>
    ELSE (IF exp.ClearBody /\ ~IsNil(resp.common)
          THEN LET bodyMut == Get(resp.common).BodyMutation
               IN  IF IsNil(bodyMut) \/ ~GetClearBody(Get(bodyMut))
                   THEN <<Difference(phase, "body.clear_body", "true", "false")>>
                   ELSE <<>>
          ELSE <<>>)
         \o (IF exp.Body # "" /\ ~IsNil(resp.common)
             THEN LET bodyMut == Get(resp.common).BodyMutation
                  IN  IF IsNil(bodyMut)
                      THEN <<Difference(phase, "body.body_mutation", exp.Body, "<nil>")>>
                      ELSE IF GetBody(Get(bodyMut)) # exp.Body
                      THEN <<Difference(phase, "body.body_mutation.body", exp.Body, GetBody(Get(bodyMut)))>>
                      ELSE <<>>
             ELSE <<>>)

compareTrailersResponse(phase, exp, resp, ord) ==
    IF resp.kind \notin {"request_trailers", "response_trailers"}
    THEN <<Difference(phase, "response_type", "trailers_response", TypeName(resp.kind))>>
    ELSE IF MapLen(exp.SetTrailers) > 0 /\ ~IsNil(resp.hm)
         THEN SetHeadersLoop(phase, "set_trailers", exp.SetTrailers, Get(resp.hm).SetHeaders, ord[1])
         ELSE <<>>

compareImmediateResponse(phase, exp, resp, ord) ==
    IF resp.kind # "immediate_response"
    THEN <<Difference(phase, "response_type", "immediate_response", TypeName(resp.kind))>>
    ELSE (IF exp.StatusCode > 0
          THEN LET actualStatus == IF IsNil(resp.status) THEN 0 ELSE Get(resp.status)
               IN  IF actualStatus # exp.StatusCode
                   THEN <<Difference(phase, "immediate_response.status_code",
                                     ToString(exp.StatusCode), ToString(actualStatus))>>
                   ELSE <<>>
          ELSE <<>>)
         \o (IF exp.Body # "" /\ resp.body # exp.Body
             THEN <<Difference(phase, "immediate_response.body", exp.Body, resp.body)>>
             ELSE <<>>)
         \o (IF MapLen(exp.Headers) > 0 /\ ~IsNil(resp.headers)
             THEN SetHeadersLoop(phase, "immediate_response.headers", exp.Headers,
                                 Get(resp.headers).SetHeaders, ord[1])
             ELSE <<>>)

compareExpectation(exp, resp, ord) ==
    CASE exp.kind = "headers_response" -> compareHeadersResponse(exp.Phase, exp, resp, ord)
      [] exp.kind = "body_response" -> compareBodyResponse(exp.Phase, exp, resp)
      [] exp.kind = "trailers_response" -> compareTrailersResponse(exp.Phase, exp, resp, ord)
      [] exp.kind = "immediate_response" -> compareImmediateResponse(exp.Phase, exp, resp, ord)
      [] OTHER -> <<>>

-----------------------------------------------------------------------------
(* comparator.Compare *)

\* In Compare and its loops ord gives the walk orders of every comparison:
\* ord[i][j] are those of expectation i with response j.

\* a scan that forgets the "resp.Phase != exp.Phase" test
RECURSIVE ScanResponsesAnyPhase(_, _, _, _, _)
ScanResponsesAnyPhase(exp, responses, j, diffs, ord) ==
    IF j > Len(responses)
    THEN [matched |-> FALSE, at |-> 0, diffs |-> diffs]
    ELSE LET d == compareExpectation(exp, responses[j].Response, ord[j])
         IN  IF Len(d) = 0
             THEN [matched |-> TRUE, at |-> j, diffs |-> diffs]
             ELSE ScanResponsesAnyPhase(exp, responses, j + 1, diffs \o d, ord)

\* a scan that gives up after the first response of the expectation's phase
RECURSIVE ScanResponsesFirstOfPhase(_, _, _, _, _)
ScanResponsesFirstOfPhase(exp, responses, j, diffs, ord) ==
    IF j > Len(responses)
    THEN [matched |-> FALSE, at |-> 0, diffs |-> diffs]
    ELSE IF responses[j].Phase # exp.Phase
    THEN ScanResponsesFirstOfPhase(exp, responses, j + 1, diffs, ord)
    ELSE LET d == compareExpectation(exp, responses[j].Response, ord[j])
         IN  IF Len(d) = 0
             THEN [matched |-> TRUE, at |-> j, diffs |-> diffs]
             ELSE [matched |-> FALSE, at |-> 0, diffs |-> diffs \o d]

\* the inner loop "for _, resp := range result.Responses" for one
\* expectation, from response j on, with the differences appended so far
RECURSIVE ScanResponses(_, _, _, _, _)
ScanResponses(exp, responses, j, diffs, ord) ==
    IF j > Len(responses)
    THEN [matched |-> FALSE, at |-> 0, diffs |-> diffs]
    ELSE IF responses[j].Phase # exp.Phase
    THEN ScanResponses(exp, responses, j + 1, diffs, ord)
    ELSE LET d == compareExpectation(exp, responses[j].Response, ord[j])
         IN  IF Len(d) = 0
             THEN [matched |-> TRUE, at |-> j, diffs |-> diffs]
             ELSE ScanResponses(exp, responses, j + 1, diffs \o d, ord)

MatchedExpectation(exp, resp) == [Expectation |-> exp, Response |-> resp]

\* the outer loop "for i, exp := range expectations", from expectation i on
RECURSIVE CompareLoop(_, _, _, _, _)
CompareLoop(expectations, responses, i, cr, ord) ==
    IF i > Len(expectations) THEN cr
    ELSE LET exp == expectations[i]
             scan == ScanResponses(exp, responses, 1, cr.Differences, ord[i])
         IN  CompareLoop(expectations, responses, i + 1,
                 IF scan.matched
                 THEN [cr EXCEPT !.Differences = scan.diffs,
                                 !.Matched = Append(@, MatchedExpectation(exp, responses[scan.at]))]
                 ELSE [cr EXCEPT !.Differences = scan.diffs,
                                 !.Unmatched = Append(@, exp),
                                 !.Passed = FALSE],
                 ord)

Compare(expectations, responses, ord) ==
    CompareLoop(expectations, responses, 1,
        [Passed |-> TRUE, Differences |-> <<>>, Matched |-> <<>>, Unmatched |-> <<>>], ord)

\* the map that walk w of a comparison of expectation exp ranges over
WalkedMap(exp, w) ==
    CASE exp.kind = "headers_response" /\ w = 1 ->
            IF ~IsNil(exp.CommonResponse) /\ ~IsNil(Get(exp.CommonResponse).HeaderMutation)
            THEN Get(Get(exp.CommonResponse).HeaderMutation).SetHeaders
            ELSE EmptyMap
      [] exp.kind = "headers_response" /\ w = 2 -> exp.SetHeaders
      [] exp.kind = "trailers_response" /\ w = 1 -> exp.SetTrailers
      [] exp.kind = "immediate_response" /\ w = 1 -> exp.Headers
      [] OTHER -> EmptyMap

\* the walks of one Compare call whose order the runtime has to pick: those
\* over a map of two keys or more, of an expectation and a response of its phase
OrderedWalks(expectations, responses) ==
    {x \in (1..Len(expectations)) \X (1..Len(responses)) \X (1..2) :
        /\ responses[x[2]].Phase = expectations[x[1]].Phase
        /\ MapLen(WalkedMap(expectations[x[1]], x[3])) >= 2}

\* the walk orders one Compare call can run under: an order for each such
\* walk, picked independently (a walk of fewer keys has one order)
CompareOrders(expectations, responses) ==
    {[i \in 1..Len(expectations) |-> [j \in 1..Len(responses) |-> [w \in 1..2 |->
         IF <<i, j, w>> \in DOMAIN c THEN c[<<i, j, w>>] ELSE SortedKeys]]] :
        c \in [OrderedWalks(expectations, responses) -> KeyOrders]}

-----------------------------------------------------------------------------
(* golden: the conversion of a ProcessingResult to expectations *)

\* the map built by "m[h.Header.Key] = h.Header.Value" over the list, entries
\* without Header skipped: the last entry of a key decides its value
MapOfSetHeaders(list) ==
    LET withKey(k) == {i \in 1..Len(list) : ~IsNil(list[i].Header) /\ Get(list[i].Header).Key = k}
        last(k) == CHOOSE i \in withKey(k) : \A j \in withKey(k) : j <= i
    IN  [k \in {kk \in Keys : withKey(kk) # {}} |-> Get(list[last(k)].Header).Value]

convertEnvoyHeadersResponse(phase, resp) ==
    IF IsNil(resp) \/ IsNil(Get(resp).HeaderMutation)
    THEN HeadersExp(phase, EmptyMap, <<>>, Nil)
    ELSE HeadersExp(phase, MapOfSetHeaders(Get(Get(resp).HeaderMutation).SetHeaders),
                    Get(Get(resp).HeaderMutation).RemoveHeaders, Nil)

convertEnvoyBodyResponse(phase, resp) ==
    IF IsNil(resp) \/ IsNil(Get(resp).BodyMutation)
    THEN BodyExp(phase, "", FALSE)
    ELSE BodyExp(phase, GetBody(Get(Get(resp).BodyMutation)),
                 GetClearBody(Get(Get(resp).BodyMutation)))

convertEnvoyTrailersResponse(phase, hm) ==
    IF IsNil(hm)
    THEN TrailersExp(phase, EmptyMap, <<>>)
    ELSE TrailersExp(phase, MapOfSetHeaders(Get(hm).SetHeaders), Get(hm).RemoveHeaders)

convertEnvoyImmediateResponse(phase, resp) ==
    ImmediateExp(phase,
                 IF IsNil(resp.status) THEN 0 ELSE Get(resp.status),
                 resp.body,
                 IF IsNil(resp.headers) THEN EmptyMap
                 ELSE MapOfSetHeaders(Get(resp.headers).SetHeaders))

\* the body of the loop of convertToExpectations for one response
convertResponse(pr) ==
    LET r == pr.Response
    IN  CASE r.kind \in {"request_headers", "response_headers"} ->
                convertEnvoyHeadersResponse(pr.Phase, r.common)
          [] r.kind \in {"request_body", "response_body"} ->
                convertEnvoyBodyResponse(pr.Phase, r.common)
          [] r.kind \in {"request_trailers", "response_trailers"} ->
                convertEnvoyTrailersResponse(pr.Phase, r.hm)
          [] r.kind = "immediate_response" ->
                convertEnvoyImmediateResponse(pr.Phase, r)
          [] OTHER -> NoExp(pr.Phase)

convertToExpectations(result) == [i \in 1..Len(result) |-> convertResponse(result[i])]

-----------------------------------------------------------------------------
(* client.Process *)

\* the requests Process is given
Bodies == {"", "b"} \cup (IF MaxBody > 1 THEN {"bb"} ELSE {})

TrailerKeys == {"t1"} \cup (IF MaxTrailers > 1 THEN {"t2"} ELSE {})

TrailerMaps ==
    UNION {[D -> {"tv"}] : D \in {S \in SUBSET TrailerKeys : Cardinality(S) <= MaxTrailers}}

Requests ==
    [ProcessRequestBody : BOOLEAN, ProcessRequestTrailers : BOOLEAN,
     Body : Bodies, Trailers : TrailerMaps]

\* len(req.Body)
BodyLen(b) == IF b = "" THEN 0 ELSE IF b = "b" THEN 1 ELSE 2

\* what the server may answer on the stream: any variant, at any phase
ServerResponses == {BareResp(k) : k \in RespKinds}

\* a driver that forgets the len(req.Body) > 0 test
SendsBodyIgnoringLength(r) == r.ProcessRequestBody

\* req.ProcessRequestBody && len(req.Body) > 0
SendsBody(r) == r.ProcessRequestBody /\ BodyLen(r.Body) > 0

\* req.ProcessRequestTrailers && len(req.Trailers) > 0
SendsTrailers(r) == r.ProcessRequestTrailers /\ MapLen(r.Trailers) > 0

\* EndOfStream of the messages built by buildRequestHeaders / buildRequestBody
HeadersEndOfStream(r) == ~r.ProcessRequestBody /\ ~r.ProcessRequestTrailers

BodyEndOfStream(r) == ~r.ProcessRequestTrailers

\* one call on the stream: op is "open", "send", "recv" or "close"
Event(op, phase, ok, eos) == [op |-> op, phase |-> phase, ok |-> ok, eos |-> eos]

\* a driver that hands back the responses collected before the failure
ReturnErrorWithPartialResult(msg, responses) == [result |-> Some(responses), err |-> msg]

\* return nil, fmt.Errorf(...)
ReturnError(msg, responses) == [result |-> Nil, err |-> msg]

\* return result, stream.CloseSend()
ReturnResult(responses, closeOk) ==
    [result |-> Some(responses), err |-> IF closeOk THEN "" ELSE "close send failed"]

\* where Process goes after the response to REQUEST_HEADERS
AfterHeaders(r, resp) ==
    IF isImmediateResponse(resp) THEN "closeSend"
    ELSE IF SendsBody(r) THEN "sendBody"
    ELSE IF SendsTrailers(r) THEN "sendTrailers"
    ELSE "closeSend"

\* where Process goes after the response to REQUEST_BODY
AfterBody(r, resp) ==
    IF isImmediateResponse(resp) THEN "closeSend"
    ELSE IF SendsTrailers(r) THEN "sendTrailers"
    ELSE "closeSend"

ClientInit ==
    /\ req \in Requests
    /\ cpc = "open"
    /\ stream = <<>>
    /\ cresult = <<>>
    /\ cret = Nil
    /\ CompareIdle
    /\ RunnerIdle

\* stream, err := c.client.Process(ctx)
OpenStream ==
    /\ cpc = "open"
    /\ \E ok \in BOOLEAN :
        /\ stream' = Append(stream, Event("open", "", ok, FALSE))
        /\ IF ok
           THEN cpc' = "sendHeaders" /\ cret' = cret
           ELSE /\ cpc' = "done"
                /\ cret' = Some(ReturnError("failed to start processing stream", cresult))
    /\ UNCHANGED <<req, cresult, nonClientVars>>

\* stream.Send(phase message)
Send(at, phase, eos, next, msg) ==
    /\ cpc = at
    /\ \E ok \in BOOLEAN :
        /\ stream' = Append(stream, Event("send", phase, ok, eos))
        /\ IF ok
           THEN cpc' = next /\ cret' = cret
           ELSE cpc' = "done" /\ cret' = Some(ReturnError(msg, cresult))
    /\ UNCHANGED <<req, cresult, nonClientVars>>

SendHeaders ==
    Send("sendHeaders", REQUEST_HEADERS, HeadersEndOfStream(req), "recvHeaders",
         "failed to send request headers")

SendBody ==
    Send("sendBody", REQUEST_BODY, BodyEndOfStream(req), "recvBody",
         "failed to send request body")

SendTrailers ==
    Send("sendTrailers", REQUEST_TRAILERS, FALSE, "recvTrailers",
         "failed to send request trailers")

\* resp, err := stream.Recv(), the append to result.Responses and the
\* branches up to the next call on the stream
RecvHeaders ==
    /\ cpc = "recvHeaders"
    /\ \/ /\ stream' = Append(stream, Event("recv", REQUEST_HEADERS, FALSE, FALSE))
          /\ cpc' = "done"
          /\ cret' = Some(ReturnError("failed to receive response for request headers", cresult))
          /\ UNCHANGED cresult
       \/ \E resp \in ServerResponses :
          /\ stream' = Append(stream, Event("recv", REQUEST_HEADERS, TRUE, FALSE))
          /\ cresult' = Append(cresult, PhaseResponse(REQUEST_HEADERS, resp))
          /\ cpc' = AfterHeaders(req, resp)
          /\ UNCHANGED cret
    /\ UNCHANGED <<req, nonClientVars>>

RecvBody ==
    /\ cpc = "recvBody"
    /\ \/ /\ stream' = Append(stream, Event("recv", REQUEST_BODY, FALSE, FALSE))
          /\ cpc' = "done"
          /\ cret' = Some(ReturnError("failed to receive response for request body", cresult))
          /\ UNCHANGED cresult
       \/ \E resp \in ServerResponses :
          /\ stream' = Append(stream, Event("recv", REQUEST_BODY, TRUE, FALSE))
          /\ cresult' = Append(cresult, PhaseResponse(REQUEST_BODY, resp))
          /\ cpc' = AfterBody(req, resp)
          /\ UNCHANGED cret
    /\ UNCHANGED <<req, nonClientVars>>

RecvTrailers ==
    /\ cpc = "recvTrailers"
    /\ \/ /\ stream' = Append(stream, Event("recv", REQUEST_TRAILERS, FALSE, FALSE))
          /\ cpc' = "done"
          /\ cret' = Some(ReturnError("failed to receive response for request trailers", cresult))
          /\ UNCHANGED cresult
       \/ \E resp \in ServerResponses :
          /\ stream' = Append(stream, Event("recv", REQUEST_TRAILERS, TRUE, FALSE))
          /\ cresult' = Append(cresult, PhaseResponse(REQUEST_TRAILERS, resp))
          /\ cpc' = "closeSend"
          /\ UNCHANGED cret
    /\ UNCHANGED <<req, nonClientVars>>

\* return result, stream.CloseSend()
CloseSend ==
    /\ cpc = "closeSend"
    /\ \E ok \in BOOLEAN :
        /\ stream' = Append(stream, Event("close", "", ok, FALSE))
        /\ cret' = Some(ReturnResult(cresult, ok))
    /\ cpc' = "done"
    /\ UNCHANGED <<req, cresult, nonClientVars>>

ClientNext ==
    \/ OpenStream
    \/ SendHeaders
    \/ RecvHeaders
    \/ SendBody
    \/ RecvBody
    \/ SendTrailers
    \/ RecvTrailers
    \/ CloseSend

SpecClient == ClientInit /\ [][ClientNext]_vars

-----------------------------------------------------------------------------
(* comparator: the calls checked *)

\* longest SetHeaders list of an actual header mutation
MaxSetHeaders == 2

\* longest RemoveHeaders list of an actual header mutation
MaxRemoveHeaders == 1

\* longest list of expectations given to Compare
MaxExpectations == 2

\* longest list of responses given to Compare
MaxResponses == 2

\* sequences over S of length at most n
SeqsUpTo(S, n) == UNION {[1..m -> S] : m \in 0..n}

\* the entries an actual SetHeaders list is made of
ActualSetEntries ==
    {EmptyHeaderValueOption, HeaderValueOption("k1", "v"),
     HeaderValueOption("k1", "w"), HeaderValueOption("k2", "v")}

ActualHeaderMutations ==
    {HeaderMutation(set, remove) :
        set \in SeqsUpTo(ActualSetEntries, MaxSetHeaders),
        remove \in SeqsUpTo(Keys, MaxRemoveHeaders)}

ActualCommonResponses ==
    {Nil, Some(CommonResponse(Nil, Nil))}
    \cup {Some(CommonResponse(Some(hm), Nil)) : hm \in ActualHeaderMutations}

\* the responses a headers expectation is compared with
HeadersCaseResponses ==
    {MkResp(kind, common, Nil, Nil, "", Nil) :
        kind \in {"request_headers", "response_headers"}, common \in ActualCommonResponses}
    \cup {BareResp("immediate_response"), BareResp("request_body"), BareResp("none")}

ExpectedSetMaps ==
    {EmptyMap, [k \in {"k1"} |-> "v"], [k \in {"k1"} |-> "w"],
     [k \in {"k2"} |-> "v"], [k \in {"k1", "k2"} |-> "v"]}

ExpectedRemoveLists == {<<>>, <<"k1">>, <<"k1", "k2">>}

ExpectedCommonResponses ==
    {Nil, Some(ExpCommonResponse(Nil)),
     Some(ExpCommonResponse(Some(ExpHeaderMutation(EmptyMap, <<>>)))),
     Some(ExpCommonResponse(Some(ExpHeaderMutation([k \in {"k1"} |-> "v"], <<>>)))),
     Some(ExpCommonResponse(Some(ExpHeaderMutation(EmptyMap, <<"k2">>))))}

HeadersCaseExpectations ==
    {HeadersExp(REQUEST_HEADERS, set, remove, common) :
        set \in ExpectedSetMaps, remove \in ExpectedRemoveLists,
        common \in ExpectedCommonResponses}

\* a response whose header mutation sets k1 to val
SetsK1(kind, val) ==
    MkResp(kind, Some(CommonResponse(Some(HeaderMutation(<<HeaderValueOption("k1", val)>>, <<>>)), Nil)),
           Nil, Nil, "", Nil)

ImmediateResp(code, body) == MkResp("immediate_response", Nil, Nil, Some(code), body, Nil)

ComparePhases == {REQUEST_HEADERS, REQUEST_BODY}

\* the expectations and responses that lists are made of
ListCaseExpectations ==
    {HeadersExp(ph, [k \in {"k1"} |-> "v"], <<>>, Nil) : ph \in ComparePhases}
    \cup {ImmediateExp(ph, 403, "forbidden", EmptyMap) : ph \in ComparePhases}
    \cup {NoExp(ph) : ph \in ComparePhases}

ListCaseResponses ==
    {PhaseResponse(ph, r) :
        ph \in ComparePhases,
        r \in {SetsK1("request_headers", "v"), SetsK1("request_headers", "w"),
               ImmediateResp(403, "forbidden")}}

\* one expectation of any kind compared with one response of any kind
ActualBodyMutations ==
    {Nil, Some(BodyMutation("none", "", FALSE)), Some(BodyMutation("body", "x", FALSE)),
     Some(BodyMutation("body", "y", FALSE)), Some(BodyMutation("body", "", FALSE)),
     Some(BodyMutation("clear_body", "", TRUE)), Some(BodyMutation("clear_body", "", FALSE))}

ActualTrailerMutations ==
    {Nil, Some(HeaderMutation(<<>>, <<>>)),
     Some(HeaderMutation(<<HeaderValueOption("k1", "v")>>, <<>>)),
     Some(HeaderMutation(<<HeaderValueOption("k1", "w")>>, <<>>)),
     Some(HeaderMutation(<<>>, <<"k1">>)),
     Some(HeaderMutation(<<HeaderValueOption("k1", "v")>>, <<"k1">>))}

ActualStatuses == {Nil, Some(0), Some(403), Some(500)}

KindCaseResponses ==
    {MkResp(kind, common, Nil, Nil, "", Nil) :
        kind \in {"request_headers", "response_headers"},
        common \in {Nil, Some(CommonResponse(Nil, Nil)),
                    Some(CommonResponse(Some(HeaderMutation(<<HeaderValueOption("k1", "v")>>,
                                                            <<>>)), Nil))}}
    \cup {MkResp(kind, common, Nil, Nil, "", Nil) :
            kind \in {"request_body", "response_body"},
            common \in {Nil} \cup {Some(CommonResponse(Nil, bm)) : bm \in ActualBodyMutations}}
    \cup {MkResp(kind, Nil, hm, Nil, "", Nil) :
            kind \in {"request_trailers", "response_trailers"}, hm \in ActualTrailerMutations}
    \cup {MkResp("immediate_response", Nil, Nil, status, body, headers) :
            status \in ActualStatuses, body \in {"", "x", "y"},
            headers \in ActualTrailerMutations}
    \cup {BareResp("none")}

KindCaseExpectations ==
    {HeadersExp(REQUEST_HEADERS, set, <<>>, Nil) : set \in {EmptyMap, [k \in {"k1"} |-> "v"]}}
    \cup {BodyExp(REQUEST_HEADERS, body, clear) : body \in {"", "x"}, clear \in BOOLEAN}
    \cup {TrailersExp(REQUEST_HEADERS, set, remove) :
            set \in {EmptyMap, [k \in {"k1"} |-> "v"]}, remove \in {<<>>, <<"k1">>}}
    \cup {ImmediateExp(REQUEST_HEADERS, status, body, headers) :
            status \in {0, 403}, body \in {"", "x"},
            headers \in {EmptyMap, [k \in {"k1"} |-> "v"]}}
    \cup {NoExp(REQUEST_HEADERS)}

\* expectations with maps of two keys, which a comparison walks in an order
\* of its own each time: two of them, or one with two such maps
TwoKeys == [k \in {"k1", "k2"} |-> "v"]

WalksCaseExpectations ==
    {<<HeadersExp(REQUEST_HEADERS, TwoKeys, <<>>, Nil)>>,
     <<HeadersExp(REQUEST_HEADERS, TwoKeys, <<>>, Nil),
       HeadersExp(REQUEST_HEADERS, TwoKeys, <<>>, Nil)>>,
     <<HeadersExp(REQUEST_HEADERS, TwoKeys, <<>>,
                  Some(ExpCommonResponse(Some(ExpHeaderMutation(TwoKeys, <<>>)))))>>,
     <<ImmediateExp(REQUEST_HEADERS, 403, "", TwoKeys),
       HeadersExp(REQUEST_HEADERS, TwoKeys, <<>>, Nil)>>}

WalksCaseResponses ==
    {<<PhaseResponse(REQUEST_HEADERS,
           MkResp("request_headers", Some(CommonResponse(Some(HeaderMutation(<<>>, <<>>)), Nil)),
                  Nil, Nil, "", Nil))>>,
     <<PhaseResponse(REQUEST_HEADERS,
           MkResp("request_headers", Some(CommonResponse(Some(HeaderMutation(<<>>, <<>>)), Nil)),
                  Nil, Nil, "", Nil)),
       PhaseResponse(REQUEST_HEADERS, SetsK1("request_headers", "w"))>>,
     <<PhaseResponse(REQUEST_HEADERS,
           MkResp("immediate_response", Nil, Nil, Some(403), "",
                  Some(HeaderMutation(<<>>, <<>>))))>>}

\* a result the Driver produced for a snapshot: one response of any kind at
\* REQUEST_HEADERS, or a list of responses of several phases
SnapshotResults ==
    {<<PhaseResponse(REQUEST_HEADERS, r)>> : r \in HeadersCaseResponses \cup KindCaseResponses}
    \cup SeqsUpTo(ListCaseResponses, MaxResponses)

CompareInit ==
    /\ \/ /\ cmpResponses \in SnapshotResults
          /\ cmpExpectations = convertToExpectations(cmpResponses)
       \/ /\ cmpExpectations \in {<<e>> : e \in HeadersCaseExpectations}
          /\ cmpResponses \in {<<PhaseResponse(REQUEST_HEADERS, r)>> : r \in HeadersCaseResponses}
       \/ /\ cmpExpectations \in {<<e>> : e \in KindCaseExpectations}
          /\ cmpResponses \in {<<PhaseResponse(REQUEST_HEADERS, r)>> : r \in KindCaseResponses}
       \/ /\ cmpExpectations \in SeqsUpTo(ListCaseExpectations, MaxExpectations)
          /\ cmpResponses \in SeqsUpTo(ListCaseResponses, MaxResponses)
       \/ /\ cmpExpectations \in WalksCaseExpectations
          /\ cmpResponses \in WalksCaseResponses
    /\ report = Nil
    /\ ClientIdle
    /\ RunnerIdle

\* compResult := r.comparator.Compare(expectations, procResult); the maps of
\* the expectations are walked in an order the runtime picks
CallCompare ==
    /\ IsNil(report)
    /\ \E ord \in CompareOrders(cmpExpectations, cmpResponses) :
           report' = Some(Compare(cmpExpectations, cmpResponses, ord))
    /\ UNCHANGED <<cmpExpectations, cmpResponses, nonCmpVars>>

CompareNext == CallCompare

SpecCompare == CompareInit /\ [][CompareNext]_vars


-----------------------------------------------------------------------------
(* runner: test selection (shouldRun), with filepath.Match and          *)
(* strings.EqualFold; patterns, names and tags are sequences of characters *)

\* the byte value of a character ("" is the zero rune)
Code(c) ==
    CASE c = "" -> 0
      [] c = "*" -> 42
      [] c = "-" -> 45
      [] c = "/" -> 47
      [] c = "?" -> 63
      [] c = "S" -> 83
      [] c = "T" -> 84
      [] c = "[" -> 91
      [] c = "\\" -> 92
      [] c = "]" -> 93
      [] c = "^" -> 94
      [] c = "a" -> 97
      [] c = "b" -> 98
      [] c = "s" -> 115
      [] c = "t" -> 116

Separator == "/"

BadPattern == [matched |-> FALSE, err |-> TRUE]

\* filepath.scanChunk: where the chunk that starts pattern p ends
RECURSIVE ScanEnd(_, _, _)
ScanEnd(p, i, inrange) ==
    IF i > Len(p) THEN i
    ELSE CASE p[i] = "\\" -> ScanEnd(p, IF i + 1 <= Len(p) THEN i + 2 ELSE i + 1, inrange)
           [] p[i] = "[" -> ScanEnd(p, i + 1, TRUE)
           [] p[i] = "]" -> ScanEnd(p, i + 1, FALSE)
           [] p[i] = "*" -> IF ~inrange THEN i ELSE ScanEnd(p, i + 1, inrange)
           [] OTHER -> ScanEnd(p, i + 1, inrange)

RECURSIVE SkipStars(_)
SkipStars(p) == IF Len(p) > 0 /\ p[1] = "*" THEN SkipStars(Tail(p)) ELSE p

scanChunk(pattern) ==
    LET p == SkipStars(pattern)
        e == ScanEnd(p, 1, FALSE)
    IN  [star |-> Len(p) < Len(pattern), chunk |-> SubSeq(p, 1, e - 1), rest |-> SubSeq(p, e, Len(p))]

\* filepath.getEsc: one character of a character class
getEsc(chunk) ==
    IF Len(chunk) = 0 \/ chunk[1] = "-" \/ chunk[1] = "]"
    THEN [r |-> "", chunk |-> <<>>, err |-> TRUE]
    ELSE LET c == IF chunk[1] = "\\" THEN Tail(chunk) ELSE chunk
         IN  IF Len(c) = 0
             THEN [r |-> "", chunk |-> <<>>, err |-> TRUE]
             ELSE [r |-> c[1], chunk |-> Tail(c), err |-> Len(c) = 1]

\* the "parse all ranges" loop of matchChunk
RECURSIVE ParseRanges(_, _, _, _)
ParseRanges(chunk, r, match, nrange) ==
    IF Len(chunk) > 0 /\ chunk[1] = "]" /\ nrange > 0
    THEN [err |-> FALSE, match |-> match, chunk |-> Tail(chunk)]
    ELSE LET lo == getEsc(chunk)
         IN  IF lo.err THEN [err |-> TRUE, match |-> FALSE, chunk |-> <<>>]
             ELSE IF lo.chunk[1] = "-"
             THEN LET hi == getEsc(Tail(lo.chunk))
                  IN  IF hi.err THEN [err |-> TRUE, match |-> FALSE, chunk |-> <<>>]
                      ELSE ParseRanges(hi.chunk, r,
                               match \/ (Code(lo.r) <= Code(r) /\ Code(r) <= Code(hi.r)),
                               nrange + 1)
             ELSE ParseRanges(lo.chunk, r, match \/ lo.r = r, nrange + 1)

\* filepath.matchChunk, from the state (chunk, s, failed) of its loop
RECURSIVE MatchChunkLoop(_, _, _)
MatchChunkLoop(chunk, s, wasFailed) ==
    IF Len(chunk) = 0
    THEN IF wasFailed THEN [rest |-> <<>>, ok |-> FALSE, err |-> FALSE]
         ELSE [rest |-> s, ok |-> TRUE, err |-> FALSE]
    ELSE LET failed == wasFailed \/ Len(s) = 0
             s1 == IF failed THEN s ELSE Tail(s)
         IN  CASE chunk[1] = "[" ->
                    LET r == IF failed THEN "" ELSE s[1]
                        negated == Len(chunk) > 1 /\ chunk[2] = "^"
                        cls == ParseRanges(IF negated THEN Tail(Tail(chunk)) ELSE Tail(chunk),
                                           r, FALSE, 0)
                    IN  IF cls.err THEN [rest |-> <<>>, ok |-> FALSE, err |-> TRUE]
                        ELSE MatchChunkLoop(cls.chunk, s1, failed \/ cls.match = negated)
               [] chunk[1] = "?" ->
                    MatchChunkLoop(Tail(chunk), s1, failed \/ s[1] = Separator)
               [] chunk[1] = "\\" ->
                    IF Len(chunk) = 1 THEN [rest |-> <<>>, ok |-> FALSE, err |-> TRUE]
                    ELSE MatchChunkLoop(Tail(Tail(chunk)), s1, failed \/ chunk[2] # s[1])
               [] OTHER ->
                    MatchChunkLoop(Tail(chunk), s1, failed \/ chunk[1] # s[1])

matchChunk(chunk, s) == MatchChunkLoop(chunk, s, FALSE)

\* the closing loop of Match: the rest of the pattern must be well formed
RECURSIVE CheckRest(_)
CheckRest(pattern) ==
    IF Len(pattern) = 0 THEN [matched |-> FALSE, err |-> FALSE]
    ELSE LET sc == scanChunk(pattern)
         IN  IF matchChunk(sc.chunk, <<>>).err THEN BadPattern ELSE CheckRest(sc.rest)

\* filepath.Match(pattern, name): [matched, err]
RECURSIVE Match(_, _)
RECURSIVE StarSkip(_, _, _, _)
StarSkip(chunk, rest, name, i) ==
    IF ~(i < Len(name) /\ name[i + 1] # Separator) THEN CheckRest(rest)
    ELSE LET m == matchChunk(chunk, SubSeq(name, i + 2, Len(name)))
         IN  IF m.ok
             THEN IF Len(rest) = 0 /\ Len(m.rest) > 0
                  THEN StarSkip(chunk, rest, name, i + 1)
                  ELSE Match(rest, m.rest)
             ELSE IF m.err THEN BadPattern
             ELSE StarSkip(chunk, rest, name, i + 1)

Match(pattern, name) ==
    IF Len(pattern) = 0 THEN [matched |-> Len(name) = 0, err |-> FALSE]
    ELSE LET sc == scanChunk(pattern)
         IN  IF sc.star /\ Len(sc.chunk) = 0
             THEN [matched |-> Separator \notin SeqRange(name), err |-> FALSE]
             ELSE LET m == matchChunk(sc.chunk, name)
                  IN  IF m.ok /\ (Len(m.rest) = 0 \/ Len(sc.rest) > 0)
                      THEN Match(sc.rest, m.rest)
                      ELSE IF m.err THEN BadPattern
                      ELSE IF sc.star THEN StarSkip(sc.chunk, sc.rest, name, 0)
                      ELSE CheckRest(sc.rest)

\* the simple case folding of strings.EqualFold, on the letters used here
Fold(c) == CASE c = "S" -> "s" [] c = "T" -> "t" [] OTHER -> c

\* strings.EqualFold(s, t)
EqualFold(s, t) == Len(s) = Len(t) /\ \A i \in 1..Len(s) : Fold(s[i]) = Fold(t[i])

\* extproctorv1.TestCase
\* the test cases of the model carry one well-formed request
GetRequest == Some([Method |-> "GET", Path |-> "/"])

TestCase(name, tags, exps, goldenFile) ==
    [Name |-> name, Request |-> GetRequest, Tags |-> tags, Expectations |-> exps,
     GoldenFile |-> goldenFile]

PROCESSING_PHASE_UNSPECIFIED == "PROCESSING_PHASE_UNSPECIFIED"

\* manifest.validateHttpRequest: the fields of the joined errors
validateHttpRequest(r) ==
    (IF r.Method = "" THEN <<"request.method">> ELSE <<>>)
    \o (IF r.Path = "" THEN <<"request.path">> ELSE <<>>)

\* manifest.validateExpectation: the fields of the joined errors, index
\* counted from 0 as in the source
validateExpectation(index, exp) ==
    (IF exp.Phase = PROCESSING_PHASE_UNSPECIFIED THEN <<<<"expectations", index, "phase">>>> ELSE <<>>)
    \o (IF exp.kind = "none" THEN <<<<"expectations", index, "response">>>> ELSE <<>>)

\* the loop "for i, exp := range tc.Expectations" of ValidateTestCase
RECURSIVE ValidateExpectationsLoop(_, _)
ValidateExpectationsLoop(exps, i) ==
    IF i > Len(exps) THEN <<>>
    ELSE validateExpectation(i - 1, exps[i]) \o ValidateExpectationsLoop(exps, i + 1)

\* manifest.ValidateTestCase: the fields of the joined validation errors, in
\* the order they are appended; errors.Join of none is nil
ValidateTestCase(tc) ==
    (IF tc.Name = <<>> THEN <<"name">> ELSE <<>>)
    \o (IF IsNil(tc.Request) THEN <<"request">> ELSE validateHttpRequest(Get(tc.Request)))
    \o (IF Len(tc.Expectations) = 0 /\ tc.GoldenFile = <<>> THEN <<"expectations">> ELSE <<>>)
    \o ValidateExpectationsLoop(tc.Expectations, 1)

\* the inner loop "for _, tcTag := range tc.Tags"
RECURSIVE AnyTestTagEquals(_, _, _)
AnyTestTagEquals(filterTag, tcTags, j) ==
    IF j > Len(tcTags) THEN FALSE
    ELSE IF EqualFold(filterTag, tcTags[j]) THEN TRUE
    ELSE AnyTestTagEquals(filterTag, tcTags, j + 1)

\* the outer loop "for _, filterTag := range r.tags": hasMatchingTag
RECURSIVE HasMatchingTag(_, _, _)
HasMatchingTag(filterTags, tcTags, i) ==
    IF i > Len(filterTags) THEN FALSE
    ELSE IF AnyTestTagEquals(filterTags[i], tcTags, 1) THEN TRUE
    ELSE HasMatchingTag(filterTags, tcTags, i + 1)

\* a name filter that lets a test through when the pattern is malformed
NameFilterRejectsLenient(filter, name) ==
    filter # <<>> /\ ~Match(filter, name).err /\ ~Match(filter, name).matched

\* "if r.filter != "" { matched, err := filepath.Match(...); if err != nil || !matched"
NameFilterRejects(filter, name) ==
    filter # <<>> /\ (Match(filter, name).err \/ ~Match(filter, name).matched)

\* "if len(r.tags) > 0 { ... if !hasMatchingTag"
TagFilterRejects(filterTags, tcTags) ==
    Len(filterTags) > 0 /\ ~HasMatchingTag(filterTags, tcTags, 1)

\* Runner.shouldRun, r the Runner
shouldRun(r, tc) ==
    IF NameFilterRejects(r.filter, tc.Name) THEN FALSE
    ELSE IF TagFilterRejects(r.tags, tc.Tags) THEN FALSE
    ELSE TRUE

-----------------------------------------------------------------------------
(* runner.Run *)

\* manifest.LoadedManifest; a path is the sequence of its elements, an
\* absolute one starting with "/"
Manifest(path, tcs) == [SourcePath |-> path, TestCases |-> tcs]

\* runner.testCaseWithManifest
testCaseWithManifest(tc, m) == [testCase |-> tc, sourcePath |-> m.SourcePath]

\* filepath.IsAbs, filepath.Dir and filepath.Join on such paths
IsAbs(path) == Len(path) > 0 /\ path[1] = "/"

Dir(path) == SubSeq(path, 1, Len(path) - 1)

Join(dir, path) == dir \o path

\* Runner.resolveGoldenPath
resolveGoldenPath(tc) ==
    IF IsAbs(tc.testCase.GoldenFile) THEN tc.testCase.GoldenFile
    ELSE Join(Dir(tc.sourcePath), tc.testCase.GoldenFile)

\* the content of a golden file that os.WriteFile has written in part: text
\* that prototext does not parse
PartialText ==
    <<MkExp(REQUEST_HEADERS, "partial text", EmptyMap, <<>>, Nil, "", FALSE, EmptyMap, <<>>, 0,
            EmptyMap)>>

\* golden.Read(path): the expectations of the file, or an error; a file
\* that is there and empty parses to no expectations
goldenRead(store, path) ==
    IF path \notin DOMAIN store \/ IsNil(store[path])
    THEN [expectations |-> <<>>, err |-> "failed to read golden file"]
    ELSE IF Get(store[path]) = PartialText
    THEN [expectations |-> <<>>, err |-> "failed to parse golden file"]
    ELSE [expectations |-> Get(store[path]), err |-> ""]

\* a resolution that prefers the golden file to the inline expectations
getExpectationsGoldenFirst(tc, store) ==
    IF tc.testCase.GoldenFile # <<>>
    THEN LET rd == goldenRead(store, resolveGoldenPath(tc))
         IN  [expectations |-> rd.expectations, err |-> rd.err, read |-> TRUE]
    ELSE [expectations |-> tc.testCase.Expectations, err |-> "", read |-> FALSE]

\* Runner.getExpectations: [expectations, err, read], read telling whether
\* the golden file was read
getExpectations(tc, store) ==
    IF Len(tc.testCase.Expectations) > 0
    THEN [expectations |-> tc.testCase.Expectations, err |-> "", read |-> FALSE]
    ELSE IF tc.testCase.GoldenFile # <<>>
    THEN LET rd == goldenRead(store, resolveGoldenPath(tc))
         IN  [expectations |-> rd.expectations, err |-> rd.err, read |-> TRUE]
    ELSE [expectations |-> <<>>, err |-> "", read |-> FALSE]

\* runner.TestResult
TestResult(name, passed, err, differences, unmatched) ==
    [Name |-> name, Passed |-> passed, Skipped |-> FALSE, Error |-> err,
     Differences |-> differences, Unmatched |-> unmatched]

\* r.updateGolden && tc.testCase.GoldenFile != ""
UpdatesGolden(r, tc) == r.updateGolden /\ tc.testCase.GoldenFile # <<>>

\* runTest at the return of r.client.Process, w the execution so far: on an
\* error the result carries it and reportResult is called (EndTest is
\* entered); otherwise the next call is getExpectations
runTestIgnoresDriverError(tc, w, proc) ==
    [w EXCEPT !.state = "resolving", !.proc = Some(proc)]

runTestAfterProcess(tc, w, proc) ==
    IF proc.err # ""
    THEN [w EXCEPT !.state = "reporting", !.proc = Some(proc),
                   !.result = Some(TestResult(tc.testCase.Name, FALSE, proc.err, <<>>, <<>>))]
    ELSE [w EXCEPT !.state = "resolving", !.proc = Some(proc)]

\* runTest from the return of getExpectations, which gave ge, to its next
\* call on the golden files or on the reporter: an error is reported; with
\* update-golden on and a golden file declared the next call is golden.Write;
\* otherwise the responses are compared, walking the maps in orders ord, and
\* the result is reported
runTestAfterExpectations(r, tc, w, ge, ord) ==
    LET rc == IF ge.read THEN <<"Read">> ELSE <<>>
    IN  IF ge.err # ""
        THEN [w EXCEPT !.state = "reporting", !.calls = @ \o rc,
                       !.result = Some(TestResult(tc.testCase.Name, FALSE, ge.err, <<>>, <<>>))]
        ELSE IF UpdatesGolden(r, tc)
        THEN [w EXCEPT !.state = "resolved", !.calls = @ \o rc]
        ELSE LET compResult == Compare(ge.expectations, Get(Get(w.proc).result), ord)
             IN  [w EXCEPT !.state = "reporting", !.calls = @ \o rc \o <<"Compare">>,
                           !.result = Some(TestResult(tc.testCase.Name, compResult.Passed, "",
                                                      compResult.Differences,
                                                      compResult.Unmatched))]

\* the golden files with the file at path holding content
SetFile(store, path, content) ==
    [p \in DOMAIN store \cup {path} |-> IF p = path THEN content ELSE store[p]]

\* a recordResult that keeps no result of a test case that ended in an error
recordResultDropsErrors(res, result) ==
    IF result.Error # "" THEN res
    ELSE [res EXCEPT !.Tests = Append(@, result),
                     !.Passed = IF result.Passed THEN @ + 1 ELSE @,
                     !.Failed = IF ~result.Passed THEN @ + 1 ELSE @]

\* a recordResult that appends a failed result without counting it
recordResultUncountedFailure(res, result) ==
    [res EXCEPT !.Tests = Append(@, result),
                !.Skipped = IF result.Skipped THEN @ + 1 ELSE @,
                !.Passed = IF ~result.Skipped /\ result.Passed THEN @ + 1 ELSE @]

\* a recordResult that puts the result in front of Results.Tests
recordResultPrepends(res, result) ==
    [res EXCEPT !.Tests = <<result>> \o @,
                !.Skipped = IF result.Skipped THEN @ + 1 ELSE @,
                !.Passed = IF ~result.Skipped /\ result.Passed THEN @ + 1 ELSE @,
                !.Failed = IF ~result.Skipped /\ ~result.Passed THEN @ + 1 ELSE @]

\* Runner.recordResult
recordResult(res, result) ==
    [res EXCEPT !.Tests = Append(@, result),
                !.Skipped = IF result.Skipped THEN @ + 1 ELSE @,
                !.Passed = IF ~result.Skipped /\ result.Passed THEN @ + 1 ELSE @,
                !.Failed = IF ~result.Skipped /\ ~result.Passed THEN @ + 1 ELSE @]

\* the loop of Run that collects the test cases to run
RECURSIVE CollectFrom(_, _, _, _)
CollectFrom(r, ms, i, j) ==
    IF i > Len(ms) THEN <<>>
    ELSE IF j > Len(ms[i].TestCases) THEN CollectFrom(r, ms, i + 1, 1)
    ELSE (IF shouldRun(r, ms[i].TestCases[j])
          THEN <<testCaseWithManifest(ms[i].TestCases[j], ms[i])>>
          ELSE <<>>)
         \o CollectFrom(r, ms, i, j + 1)

\* the execution of one collected test case: the position of its runTest,
\* what Process returned, the TestResult, what was handed to golden.Write,
\* the calls made, whether the context was cancelled when it started, and
\* whether its goroutine holds a slot of the semaphore and counts in the
\* WaitGroup
NewWork ==
    [state |-> "pending", proc |-> Nil, result |-> Nil, written |-> Nil, calls |-> <<>>,
     startedCancelled |-> FALSE, slot |-> FALSE, inWg |-> FALSE]

\* what r.client.Process may return to runTest
ResultMatching == <<PhaseResponse(REQUEST_HEADERS, SetsK1("request_headers", "v"))>>

ResultDiffering == <<PhaseResponse(REQUEST_HEADERS, SetsK1("request_headers", "w"))>>

ProcessOk(responses) == [result |-> Some(responses), err |-> ""]

ProcessFailed(msg) == [result |-> Nil, err |-> msg]

\* what the processor behind r.client can make Process return: a result
\* that the inline expectations match, one that they do not, a stream error
ProcessOutcomes ==
    {ProcessOk(ResultMatching), ProcessOk(ResultDiffering),
     ProcessFailed("failed to receive response for request headers")}

\* a processor that answers, as expected or not
AnsweringProcessor == {ProcessOk(ResultMatching), ProcessOk(ResultDiffering)}

\* a processor that answers as expected or breaks the stream
MatchingOrFailingProcessor ==
    {ProcessOk(ResultMatching), ProcessFailed("failed to receive response for request headers")}

\* a processor that answers as expected
MatchingProcessor == {ProcessOk(ResultMatching)}

\* what r.client.Process may return to runTest, client being the outcomes
\* its processor can give: a cancelled context fails the calls still to be
\* made on the stream; a Process that has made them all returns as it would
\* have
ProcessReturns(client, cancelled) ==
    client \cup (IF cancelled THEN {ProcessFailed("context canceled")} ELSE {})

\* Run up to the choice of the mode: collects the test cases, builds the
\* Results and reports StartSuite
RunStart ==
    /\ rpc = "start"
    /\ LET tcs == CollectFrom(runner, manifests, 1, 1)
       IN  /\ testCases' = tcs
           /\ results' = [Total |-> Len(tcs), Passed |-> 0, Failed |-> 0, Skipped |-> 0,
                          Tests |-> <<>>]
           /\ work' = [i \in 1..Len(tcs) |-> NewWork]
           /\ suite' = <<[event |-> "StartSuite", total |-> Len(tcs)]>>
    /\ idx' = 1
    /\ rpc' = IF runner.parallel > 1 THEN "parallel" ELSE "sequential"
    /\ UNCHANGED <<runner, manifests, ctxDone, sem, wg, golden, summary, ret, nonRunVars>>

\* a runSequential that counts the test cases it will not start as skipped
\* when the context is cancelled
SequentialStepSkipsRest ==
    /\ rpc = "sequential"
    /\ IF idx > Len(testCases) \/ ctxDone
       THEN /\ rpc' = "endSuite"
            /\ results' = [results EXCEPT !.Skipped = @ + (Len(testCases) - idx + 1)]
            /\ UNCHANGED work
       ELSE /\ work' = [work EXCEPT ![idx].state = "launched"]
            /\ rpc' = "sequentialRunning"
            /\ UNCHANGED results
    /\ UNCHANGED <<runner, manifests, testCases, idx, ctxDone, sem, wg,
                   golden, suite, summary, ret, nonRunVars>>

\* one turn of the loop of runSequential: the context check, then the call
\* of runTest
SequentialStep ==
    /\ rpc = "sequential"
    /\ IF idx > Len(testCases) \/ ctxDone
       THEN /\ rpc' = "endSuite"
            /\ UNCHANGED work
       ELSE /\ work' = [work EXCEPT ![idx].state = "launched"]
            /\ rpc' = "sequentialRunning"
    /\ UNCHANGED <<runner, manifests, testCases, idx, ctxDone, sem, wg, results,
                   golden, suite, summary, ret, nonRunVars>>

\* runTest, called by runSequential or by a worker goroutine that got to
\* run, up to its call of r.client.Process: StartTest is reported and the
\* stream is being driven with the run's context as it is now
StartRunTest(i) ==
    /\ i \in 1..Len(work)
    /\ work[i].state = "launched"
    /\ work' = [work EXCEPT ![i].state = "running", ![i].calls = <<"StartTest", "Process">>,
                            ![i].startedCancelled = ctxDone]
    /\ UNCHANGED <<runner, manifests, testCases, rpc, idx, ctxDone, sem, wg, results,
                   golden, suite, summary, ret, nonRunVars>>

\* r.client.Process returns to runTest
ProcessReturned(i) ==
    /\ i \in 1..Len(work)
    /\ work[i].state = "running"
    /\ \E proc \in ProcessReturns(runner.client, ctxDone) :
        work' = [work EXCEPT ![i] = runTestAfterProcess(testCases[i], @, proc)]
    /\ UNCHANGED <<runner, manifests, testCases, rpc, idx, ctxDone, sem, wg, results,
                   golden, suite, summary, ret, nonRunVars>>

\* r.getExpectations(tc), which reads the golden file as it is now when the
\* test case has no inline expectations, and runTest up to its next call
GetExpectations(i) ==
    /\ i \in 1..Len(work)
    /\ work[i].state = "resolving"
    /\ LET ge == getExpectations(testCases[i], golden)
       IN  \E ord \in CompareOrders(ge.expectations, Get(Get(work[i].proc).result)) :
               work' = [work EXCEPT
                           ![i] = runTestAfterExpectations(runner, testCases[i], @, ge, ord)]
    /\ UNCHANGED <<runner, manifests, testCases, rpc, idx, ctxDone, sem, wg, results,
                   golden, suite, summary, ret, nonRunVars>>

\* golden.Write up to the opening of the file by os.WriteFile: MkdirAll or
\* the opening fails and the file is as it was, or the file is open and
\* truncated
WriteOpened(i) ==
    /\ i \in 1..Len(work)
    /\ work[i].state = "resolved"
    /\ \E outcome \in {"failed to create directory", "failed to write golden file", "truncated"} :
        IF outcome = "truncated"
        THEN /\ work' = [work EXCEPT ![i].state = "writing",
                                     ![i].written = Some(Get(Get(work[i].proc).result)),
                                     ![i].calls = Append(@, "Write")]
             /\ golden' = SetFile(golden, resolveGoldenPath(testCases[i]), Some(<<>>))
        ELSE /\ work' = [work EXCEPT ![i].state = "reporting",
                                     ![i].written = Some(Get(Get(work[i].proc).result)),
                                     ![i].calls = Append(@, "Write"),
                                     ![i].result = Some(TestResult(testCases[i].testCase.Name,
                                                                   FALSE, outcome, <<>>, <<>>))]
             /\ UNCHANGED golden
    /\ UNCHANGED <<runner, manifests, testCases, rpc, idx, ctxDone, sem, wg, results,
                   suite, summary, ret, nonRunVars>>

\* os.WriteFile has written a part of the text
WrittenInPart(i) ==
    /\ i \in 1..Len(work)
    /\ work[i].state = "writing"
    /\ golden[resolveGoldenPath(testCases[i])] # Some(PartialText)
    /\ golden' = SetFile(golden, resolveGoldenPath(testCases[i]), Some(PartialText))
    /\ UNCHANGED <<runner, manifests, testCases, rpc, idx, ctxDone, sem, wg, work, results,
                   suite, summary, ret, nonRunVars>>

\* os.WriteFile returns: the file holds the snapshot of the Driver's result
\* and the test case passed, or the write failed and the file is left as far
\* as it was written; then reportResult
WriteReturned(i) ==
    /\ i \in 1..Len(work)
    /\ work[i].state = "writing"
    /\ \/ /\ golden' = SetFile(golden, resolveGoldenPath(testCases[i]),
                               Some(convertToExpectations(Get(Get(work[i].proc).result))))
          /\ work' = [work EXCEPT ![i].state = "reporting",
                                  ![i].result = Some(TestResult(testCases[i].testCase.Name,
                                                                TRUE, "", <<>>, <<>>))]
       \/ /\ UNCHANGED golden
          /\ work' = [work EXCEPT ![i].state = "reporting",
                                  ![i].result = Some(TestResult(testCases[i].testCase.Name, FALSE,
                                                                "failed to write golden file",
                                                                <<>>, <<>>))]
    /\ UNCHANGED <<runner, manifests, testCases, rpc, idx, ctxDone, sem, wg, results,
                   suite, summary, ret, nonRunVars>>

\* r.reporter.EndTest returns, and runTest returns its result
EndTestReturned(i) ==
    /\ i \in 1..Len(work)
    /\ work[i].state = "reporting"
    /\ work' = [work EXCEPT ![i].state = "finished", ![i].calls = Append(@, "EndTest")]
    /\ UNCHANGED <<runner, manifests, testCases, rpc, idx, ctxDone, sem, wg, results,
                   golden, suite, summary, ret, nonRunVars>>

\* a runSequential that records the result and runs the same test case again
SequentialRecordRepeats ==
    /\ rpc = "sequentialRunning"
    /\ work[idx].state = "finished"
    /\ results' = recordResult(results, Get(work[idx].result))
    /\ work' = [work EXCEPT ![idx].state = "recorded"]
    /\ idx' = idx
    /\ rpc' = "sequential"
    /\ UNCHANGED <<runner, manifests, testCases, ctxDone, sem, wg, golden, suite, summary,
                   ret, nonRunVars>>

\* runSequential: r.recordResult(results, result) after runTest returned
SequentialRecord ==
    /\ rpc = "sequentialRunning"
    /\ work[idx].state = "finished"
    /\ results' = recordResult(results, Get(work[idx].result))
    /\ work' = [work EXCEPT ![idx].state = "recorded"]
    /\ idx' = idx + 1
    /\ rpc' = "sequential"
    /\ UNCHANGED <<runner, manifests, testCases, ctxDone, sem, wg, golden, suite, summary,
                   ret, nonRunVars>>

\* the go statement of runParallel for test case i: its goroutine exists,
\* holds the slot just taken and counts in the WaitGroup
Launched(w) == [w EXCEPT !.state = "launched", !.slot = TRUE, !.inWg = TRUE]

\* one turn of the loop of runParallel in the goroutine of Run: the context
\* check, wg.Add(1) and "sem <- struct{}{}", which goes through at once when
\* a slot is free, and then the go statement, or blocks when none is; after
\* the last test case, on to wg.Wait()
ParallelStep ==
    /\ rpc = "parallel"
    /\ IF idx > Len(testCases)
       THEN /\ rpc' = "wait"
            /\ UNCHANGED <<idx, sem, wg, work>>
       ELSE IF ctxDone
       THEN /\ rpc' = "endSuite"
            /\ UNCHANGED <<idx, sem, wg, work>>
       ELSE IF sem < runner.parallel
       THEN /\ wg' = wg + 1
            /\ sem' = sem + 1
            /\ work' = [work EXCEPT ![idx] = Launched(@)]
            /\ idx' = idx + 1
            /\ rpc' = "parallel"
       ELSE /\ wg' = wg + 1
            /\ rpc' = "acquire"
            /\ UNCHANGED <<idx, sem, work>>
    /\ UNCHANGED <<runner, manifests, testCases, ctxDone, results, golden, suite, summary,
                   ret, nonRunVars>>

\* a send on the semaphore channel that never blocks
ParallelAcquireUnbounded ==
    /\ rpc = "acquire"
    /\ sem' = sem + 1
    /\ work' = [work EXCEPT ![idx] = Launched(@)]
    /\ idx' = idx + 1
    /\ rpc' = "parallel"
    /\ UNCHANGED <<runner, manifests, testCases, ctxDone, wg, results, golden, suite,
                   summary, ret, nonRunVars>>

\* the blocked "sem <- struct{}{}" gets the slot a worker freed, and the go
\* statement follows
ParallelAcquire ==
    /\ rpc = "acquire"
    /\ sem < runner.parallel
    /\ sem' = sem + 1
    /\ work' = [work EXCEPT ![idx] = Launched(@)]
    /\ idx' = idx + 1
    /\ rpc' = "parallel"
    /\ UNCHANGED <<runner, manifests, testCases, ctxDone, wg, results, golden, suite,
                   summary, ret, nonRunVars>>

\* a worker after runTest: mu.Lock(), recordResult, mu.Unlock()
ParallelRecord(i) ==
    /\ i \in 1..Len(work)
    /\ runner.parallel > 1
    /\ work[i].state = "finished"
    /\ results' = recordResult(results, Get(work[i].result))
    /\ work' = [work EXCEPT ![i].state = "recorded"]
    /\ UNCHANGED <<runner, manifests, testCases, rpc, idx, ctxDone, sem, wg, golden, suite,
                   summary, ret, nonRunVars>>

\* a worker that ends without taking its token back from the semaphore
SlotKept(i) ==
    /\ i \in 1..Len(work)
    /\ work[i].state = "recorded"
    /\ work[i].slot
    /\ work' = [work EXCEPT ![i].slot = FALSE]
    /\ UNCHANGED <<runner, manifests, testCases, rpc, idx, ctxDone, sem, wg, results,
                   golden, suite, summary, ret, nonRunVars>>

\* the worker's deferred "<-sem"
SlotReleased(i) ==
    /\ i \in 1..Len(work)
    /\ work[i].state = "recorded"
    /\ work[i].slot
    /\ sem' = sem - 1
    /\ work' = [work EXCEPT ![i].slot = FALSE]
    /\ UNCHANGED <<runner, manifests, testCases, rpc, idx, ctxDone, wg, results,
                   golden, suite, summary, ret, nonRunVars>>

\* the worker's deferred wg.Done(), which runs after the "<-sem"
WorkerDone(i) ==
    /\ i \in 1..Len(work)
    /\ work[i].state = "recorded"
    /\ ~work[i].slot
    /\ work[i].inWg
    /\ wg' = wg - 1
    /\ work' = [work EXCEPT ![i].inWg = FALSE]
    /\ UNCHANGED <<runner, manifests, testCases, rpc, idx, ctxDone, sem, results,
                   golden, suite, summary, ret, nonRunVars>>

\* wg.Wait() returns
ParallelWait ==
    /\ rpc = "wait"
    /\ wg = 0
    /\ rpc' = "endSuite"
    /\ UNCHANGED <<runner, manifests, testCases, idx, ctxDone, sem, wg, work, results,
                   golden, suite, summary, ret, nonRunVars>>

\* Run builds the SuiteSummary, reading the counters of results without the
\* mutex: first Total and Passed
SummaryStarted ==
    /\ rpc = "endSuite"
    /\ summary' = Some([total |-> results.Total, passed |-> results.Passed])
    /\ rpc' = "summing"
    /\ UNCHANGED <<runner, manifests, testCases, idx, ctxDone, sem, wg, work, results,
                   golden, suite, ret, nonRunVars>>

\* then Failed and Skipped, and r.reporter.EndSuite is called with the summary
EndSuiteCalled ==
    /\ rpc = "summing"
    /\ suite' = Append(suite, [event |-> "EndSuite",
                               total |-> Get(summary).total, passed |-> Get(summary).passed,
                               failed |-> results.Failed, skipped |-> results.Skipped])
    /\ rpc' = "inEndSuite"
    /\ UNCHANGED <<runner, manifests, testCases, idx, ctxDone, sem, wg, work, results,
                   golden, summary, ret, nonRunVars>>

\* EndSuite returns and Run returns the pointer to results with a nil error;
\* ret holds the Results as they are at the return
RunEnd ==
    /\ rpc = "inEndSuite"
    /\ ret' = Some([results |-> results, err |-> ""])
    /\ rpc' = "returned"
    /\ UNCHANGED <<runner, manifests, testCases, idx, ctxDone, sem, wg, work, results,
                   golden, suite, summary, nonRunVars>>

\* the error runTests returns after Run returned err with Results res: the
\* wrapped error of Run, or the number of failed test cases when
\* results.Failed > 0, or nil
runTestsError(err, res) ==
    IF err # "" THEN <<"test execution failed", err>>
    ELSE IF res.Failed > 0 THEN <<"test(s) failed", res.Failed>>
    ELSE <<>>

\* the run's context is cancelled (an interrupt, or the caller's deferred cancel)
Cancel ==
    /\ rpc \notin {"idle", "returned"}
    /\ ~ctxDone
    /\ ctxDone' = TRUE
    /\ UNCHANGED <<runner, manifests, testCases, rpc, idx, sem, wg, work, results,
                   golden, suite, summary, ret, nonRunVars>>

RunnerNext ==
    \/ RunStart
    \/ SequentialStep
    \/ \E i \in 1..Len(work) : StartRunTest(i)
    \/ \E i \in 1..Len(work) : ProcessReturned(i)
    \/ \E i \in 1..Len(work) : GetExpectations(i)
    \/ \E i \in 1..Len(work) : WriteOpened(i)
    \/ \E i \in 1..Len(work) : WrittenInPart(i)
    \/ \E i \in 1..Len(work) : WriteReturned(i)
    \/ \E i \in 1..Len(work) : EndTestReturned(i)
    \/ SequentialRecord
    \/ ParallelStep
    \/ ParallelAcquire
    \/ \E i \in 1..Len(work) : ParallelRecord(i)
    \/ \E i \in 1..Len(work) : SlotReleased(i)
    \/ \E i \in 1..Len(work) : WorkerDone(i)
    \/ ParallelWait
    \/ SummaryStarted
    \/ EndSuiteCalled
    \/ RunEnd
    \/ Cancel

\* the runs checked.  Detail runs: up to MaxDetailTests test cases, the first
\* with inline expectations, a golden file, both or neither, the others with
\* inline expectations or nothing, run one at a time with the golden files
\* on disk or not.  Scheduling runs: test cases in turn with inline expectations and
\* with a golden file that is missing, up to MaxTests of them run one at a
\* time, and up to three run by two workers, the smallest run in which the
\* send on the semaphore blocks.  MaxParallel workers run the filtered and
\* the shared-golden runs.
MaxDetailTests == 2

MaxTests == 3

MaxParallel == 2

TestNames == <<<<"a">>, <<"b">>, <<"a", "b">>, <<"b", "a">>, <<"a", "a">>>>

InlineExpectations == <<HeadersExp(REQUEST_HEADERS, [k \in {"k1"} |-> "v"], <<>>, Nil)>>

ManifestPath == <<"dir", "manifest">>

GoldenPaths == {<<"dir", "g.json">>, <<"/", "abs", "golden">>}

InlineKind == [exps |-> InlineExpectations, goldenFile |-> <<>>]

GoldenKind == [exps |-> <<>>, goldenFile |-> <<"g.json">>]

NeitherKind == [exps |-> <<>>, goldenFile |-> <<>>]

TestKinds ==
    {InlineKind, GoldenKind,
     [exps |-> <<>>, goldenFile |-> <<"/", "abs", "golden">>],
     [exps |-> InlineExpectations, goldenFile |-> <<"g.json">>],
     NeitherKind}

\* one manifest in directory "dir" with a test case for each kind of ks
ManifestOf(ks) ==
    <<Manifest(ManifestPath, [i \in 1..Len(ks) |->
                          TestCase(TestNames[i], <<>>, ks[i].exps, ks[i].goldenFile)])>>

DetailRun ==
    /\ runner \in [client : {ProcessOutcomes}, parallel : {1}, filter : {<<>>}, tags : {<<>>},
                   updateGolden : BOOLEAN]
    /\ manifests \in {ManifestOf(<<>>)} \cup
                     {ManifestOf(<<k>> \o ks) :
                         k \in TestKinds,
                         ks \in SeqsUpTo({InlineKind, NeitherKind}, MaxDetailTests - 1)}
    /\ golden \in {[p \in GoldenPaths |-> f] : f \in {Nil, Some(InlineExpectations)}}

\* m test cases, in turn with inline expectations and with a golden file
AlternatingManifest(m) ==
    ManifestOf([i \in 1..m |-> IF i % 2 = 1 THEN InlineKind ELSE GoldenKind])

SchedulingRun ==
    /\ \/ /\ runner \in [client : {ProcessOutcomes}, parallel : {0}, filter : {<<>>},
                          tags : {<<>>}, updateGolden : {FALSE}]
          /\ manifests \in {AlternatingManifest(m) : m \in 0..MaxTests}
       \/ /\ runner \in [client : {MatchingOrFailingProcessor}, parallel : {2}, filter : {<<>>},
                          tags : {<<>>}, updateGolden : {FALSE}]
          /\ manifests \in {AlternatingManifest(m) : m \in 0..3}
    /\ golden = [p \in GoldenPaths |-> Nil]

\* name filters given to a whole run: malformed ones and well-formed ones
RunFilters == {<<"[">>, <<"a", "[">>, <<"a", "\\">>, <<"a">>, <<"[", "a", "]">>, <<"*">>}

\* two manifests given in this order, whose test cases are not in the order
\* of their names
TwoManifests ==
    <<Manifest(ManifestPath, <<TestCase(TestNames[2], <<>>, InlineExpectations, <<>>),
                               TestCase(TestNames[3], <<>>, InlineExpectations, <<>>)>>),
      Manifest(<<"other", "manifest">>, <<TestCase(TestNames[1], <<>>, InlineExpectations, <<>>)>>)>>

FilteredRun ==
    /\ runner \in [client : {MatchingProcessor}, parallel : {1, MaxParallel}, filter : RunFilters,
                   tags : {<<>>}, updateGolden : {FALSE}]
    /\ manifests = ManifestOf(<<InlineKind, InlineKind>>)
    /\ golden = [p \in GoldenPaths |-> Nil]

\* sequential runs over the two manifests, with and without a name filter
TwoManifestsRun ==
    /\ runner \in [client : {MatchingProcessor}, parallel : {0, 1},
                   filter : {<<>>, <<"b">>, <<"*">>}, tags : {<<>>}, updateGolden : {FALSE}]
    /\ manifests = TwoManifests
    /\ golden = [p \in GoldenPaths |-> Nil]

\* two test cases that declare the same golden file, which is on disk, run
\* two at a time, updating the golden files or not
SharedGoldenRun ==
    /\ runner \in [client : {AnsweringProcessor}, parallel : {MaxParallel}, filter : {<<>>},
                   tags : {<<>>}, updateGolden : BOOLEAN]
    /\ manifests = ManifestOf(<<GoldenKind, GoldenKind>>)
    /\ golden = [p \in GoldenPaths |->
                    IF p = <<"dir", "g.json">> THEN Some(InlineExpectations) ELSE Nil]

RunnerInit ==
    /\ DetailRun \/ SchedulingRun \/ FilteredRun \/ TwoManifestsRun \/ SharedGoldenRun
    /\ testCases = <<>>
    /\ rpc = "start"
    /\ idx = 0
    /\ ctxDone = FALSE
    /\ sem = 0
    /\ wg = 0
    /\ work = <<>>
    /\ results = <<>>
    /\ suite = <<>>
    /\ summary = Nil
    /\ ret = Nil
    /\ ClientIdle
    /\ CompareIdle

SpecRunner == RunnerInit /\ [][RunnerNext]_vars

\* the runs checked for termination: test cases with inline expectations, up
\* to MaxTests run one at a time (parallel = 1) and up to three run by two
\* workers, and one test case whose golden file is updated
LiveInit ==
    /\ \/ /\ runner \in [client : {ProcessOutcomes}, parallel : {1}, filter : {<<>>},
                          tags : {<<>>}, updateGolden : {FALSE}]
          /\ manifests \in {ManifestOf([i \in 1..m |-> InlineKind]) : m \in 0..MaxTests}
       \/ /\ runner \in [client : {MatchingProcessor}, parallel : {2}, filter : {<<>>},
                          tags : {<<>>}, updateGolden : {FALSE}]
          /\ manifests \in {ManifestOf([i \in 1..m |-> InlineKind]) : m \in 0..3}
       \/ /\ runner \in [client : {ProcessOutcomes}, parallel : {1}, filter : {<<>>},
                          tags : {<<>>}, updateGolden : {TRUE}]
          /\ manifests = ManifestOf(<<GoldenKind>>)
    /\ golden = [p \in GoldenPaths |-> Some(InlineExpectations)]
    /\ testCases = <<>>
    /\ rpc = "start"
    /\ idx = 0
    /\ ctxDone = FALSE
    /\ sem = 0
    /\ wg = 0
    /\ work = <<>>
    /\ results = <<>>
    /\ suite = <<>>
    /\ summary = Nil
    /\ ret = Nil
    /\ ClientIdle
    /\ CompareIdle

\* the steps of Run and of its workers: every step but the cancellation,
\* which nothing obliges the caller to make
RunnerProgress ==
    \/ RunStart
    \/ SequentialStep
    \/ \E i \in 1..Len(work) : StartRunTest(i)
    \/ \E i \in 1..Len(work) : ProcessReturned(i)
    \/ \E i \in 1..Len(work) : GetExpectations(i)
    \/ \E i \in 1..Len(work) : WriteOpened(i)
    \/ \E i \in 1..Len(work) : WrittenInPart(i)
    \/ \E i \in 1..Len(work) : WriteReturned(i)
    \/ \E i \in 1..Len(work) : EndTestReturned(i)
    \/ SequentialRecord
    \/ ParallelStep
    \/ ParallelAcquire
    \/ \E i \in 1..Len(work) : ParallelRecord(i)
    \/ \E i \in 1..Len(work) : SlotReleased(i)
    \/ \E i \in 1..Len(work) : WorkerDone(i)
    \/ ParallelWait
    \/ SummaryStarted
    \/ EndSuiteCalled
    \/ RunEnd

\* the scheduler runs every goroutine that can take a step, and every call
\* of r.client.Process returns
SpecRunnerLive == LiveInit /\ [][RunnerNext]_vars /\ WF_vars(RunnerProgress)

\* the selections checked.  Pattern selections: every filter of up to
\* MaxPatternLen characters, and some longer ones, against every name of up to
\* MaxNameLen characters, and some more.  Tag selections: filter tags and
\* test tags of up to MaxFilterTags and MaxTestTags tags, with and without a
\* name filter.
MaxPatternLen == 3

MaxNameLen == 2

MaxFilterTags == 2

MaxTestTags == 2

PatternChars == {"a", "b", "*", "?", "[", "]", "\\", "-", "^"}

LongPatterns ==
    {<<"[", "a", "-", "b", "]">>, <<"[", "^", "a", "]">>, <<"[", "^", "a", "-", "b", "]">>,
     <<"[", "\\", "]", "]">>, <<"[", "a", "-", "]">>, <<"[", "b", "-", "a", "]">>,
     <<"a", "*", "[", "a">>, <<"*", "a", "*", "b">>, <<"*", "/", "*">>,
     <<"a", "[", "^", "/", "]", "b">>, <<"?", "*", "\\">>}

Patterns == SeqsUpTo(PatternChars, MaxPatternLen) \cup LongPatterns

NameChars == {"a", "/"}

LongNames == {<<"b">>, <<"a", "b">>, <<"b", "a">>, <<"a", "/", "b">>}

Names == SeqsUpTo(NameChars, MaxNameLen) \cup LongNames

TagValues == {<<"s">>, <<"S">>, <<"t">>, <<"s", "T">>}

TagFilters == {<<>>, <<"a", "*">>, <<"b">>, <<"[">>}

\* the second test case of the manifest: untagged
OtherTest == TestCase(<<"a", "b">>, <<>>, InlineExpectations, <<>>)

PatternSelection ==
    /\ runner \in [client : {MatchingProcessor}, parallel : {1}, filter : Patterns,
                   tags : {<<>>}, updateGolden : {FALSE}]
    /\ manifests \in {<<Manifest(ManifestPath, <<TestCase(n, <<>>, InlineExpectations, <<>>), OtherTest>>)>> :
                         n \in Names}

TagSelection ==
    /\ runner \in [client : {MatchingProcessor}, parallel : {1}, filter : TagFilters,
                   tags : SeqsUpTo(TagValues, MaxFilterTags), updateGolden : {FALSE}]
    /\ manifests \in {<<Manifest(ManifestPath, <<TestCase(<<"a">>, ts, InlineExpectations, <<>>), OtherTest>>)>> :
                         ts \in SeqsUpTo(TagValues, MaxTestTags)}

FilterInit ==
    /\ PatternSelection \/ TagSelection
    /\ golden = [p \in GoldenPaths |-> Nil]
    /\ testCases = <<>>
    /\ rpc = "start"
    /\ idx = 0
    /\ ctxDone = FALSE
    /\ sem = 0
    /\ wg = 0
    /\ work = <<>>
    /\ results = <<>>
    /\ suite = <<>>
    /\ summary = Nil
    /\ ret = Nil
    /\ ClientIdle
    /\ CompareIdle

\* Run as far as the test cases it selects
FilterNext == RunStart

SpecFilter == FilterInit /\ [][FilterNext]_vars

-----------------------------------------------------------------------------
(* Properties of client.Process *)

\* the Send and Recv calls made on the stream, in order
Exchanges == SelectSeq(stream, LAMBDA e : e.op \in {"send", "recv"})

SentPhases ==
    LET s == SelectSeq(stream, LAMBDA e : e.op = "send" /\ e.ok)
    IN  [i \in 1..Len(s) |-> s[i].phase]

ResultPhases(responses) == [i \in 1..Len(responses) |-> responses[i].Phase]

Returned == cpc = "done" /\ ~IsNil(cret)

CloseSucceeded == \E i \in 1..Len(stream) : stream[i].op = "close" /\ stream[i].ok

ImmediateAt(k) == k <= Len(cresult) /\ cresult[k].Response.kind = "immediate_response"

\* C1: once a received response is an immediate response (at REQUEST_HEADERS
\* or REQUEST_BODY), no further phase message is sent and the responses
\* collected so far are returned as the result, with a nil error iff
\* CloseSend succeeded; an immediate response to REQUEST_HEADERS gives a
\* result of exactly one PhaseResponse, of phase REQUEST_HEADERS, whatever
\* the request's flags, body and trailers.
C1_ImmediateStopsProcess ==
    /\ \A k \in 1..Len(cresult) :
        ImmediateAt(k) =>
            /\ k = Len(cresult)
            /\ Len(SelectSeq(stream, LAMBDA e : e.op = "send")) = k
            /\ cpc \in {"closeSend", "done"}
            /\ Returned =>
                /\ Get(cret).result = Some(cresult)
                /\ (Get(cret).err = "") = CloseSucceeded
    /\ (ImmediateAt(1) /\ Returned) =>
        /\ Len(Get(Get(cret).result)) = 1
        /\ Get(Get(cret).result)[1].Phase = REQUEST_HEADERS

\* C1 witness: a request that asks for its non-empty body to be processed
\* got an immediate response to REQUEST_HEADERS and Process has returned.
C1_Witness ==
    /\ Returned
    /\ req.ProcessRequestBody /\ req.Body # ""
    /\ ImmediateAt(1)
    /\ Get(cret).err = ""
    /\ Len(Get(Get(cret).result)) = 1

IsSubsequenceOfRequestPhases(ph) ==
    \A i, j \in 1..Len(ph) :
        i < j =>
            \/ ph[i] = REQUEST_HEADERS /\ ph[j] \in {REQUEST_BODY, REQUEST_TRAILERS}
            \/ ph[i] = REQUEST_BODY /\ ph[j] = REQUEST_TRAILERS

\* C3: when Process returns a result, the phases of result.Responses are the
\* phases of the messages sent, in send order; they start with
\* REQUEST_HEADERS and are a subsequence of (REQUEST_HEADERS, REQUEST_BODY,
\* REQUEST_TRAILERS); REQUEST_BODY only with ProcessRequestBody and a
\* non-empty body, REQUEST_TRAILERS only with ProcessRequestTrailers and
\* non-empty trailers; no RESPONSE_* phase; and at every moment each sent
\* message has been answered before the next one is sent.
C3_ResponsesFollowSends ==
    /\ \A i \in 1..Len(Exchanges) :
        /\ Exchanges[i].op = (IF i % 2 = 1 THEN "send" ELSE "recv")
        /\ i % 2 = 0 => Exchanges[i].phase = Exchanges[i - 1].phase
        /\ (i < Len(Exchanges)) => Exchanges[i].ok
    /\ (Returned /\ ~IsNil(Get(cret).result)) =>
        LET ph == ResultPhases(Get(Get(cret).result))
        IN  /\ ph = SentPhases
            /\ Len(ph) >= 1 /\ ph[1] = REQUEST_HEADERS
            /\ IsSubsequenceOfRequestPhases(ph)
            /\ \A i \in 1..Len(ph) :
                /\ ph[i] \in RequestPhases
                /\ ph[i] = REQUEST_BODY =>
                    req.ProcessRequestBody /\ req.Body # ""
                /\ ph[i] = REQUEST_TRAILERS =>
                    req.ProcessRequestTrailers /\ DOMAIN req.Trailers # {}

\* C3 witness: a successful call that sent all three request phases.
C3_Witness ==
    /\ Returned
    /\ Get(cret).err = ""
    /\ ResultPhases(Get(Get(cret).result)) =
        <<REQUEST_HEADERS, REQUEST_BODY, REQUEST_TRAILERS>>

\* C4: if opening the stream, a Send or a Recv fails, Process makes no
\* further call on the stream, has sent no phase twice, and returns an error
\* with no ProcessingResult, whatever it had collected.
C4_FailureAborts ==
    /\ \A i \in 1..Len(stream) :
        (stream[i].op \in {"open", "send", "recv"} /\ ~stream[i].ok) =>
            /\ i = Len(stream)
            /\ Returned
            /\ IsNil(Get(cret).result)
            /\ Get(cret).err # ""
    /\ \A i, j \in 1..Len(stream) :
        (stream[i].op = "send" /\ stream[j].op = "send" /\ i # j) =>
            stream[i].phase # stream[j].phase

\* C4 witness: the Recv for REQUEST_BODY failed after the REQUEST_HEADERS
\* response had been collected.
C4_Witness ==
    /\ Returned
    /\ Len(cresult) = 1
    /\ stream[Len(stream)] = Event("recv", REQUEST_BODY, FALSE, FALSE)
    /\ IsNil(Get(cret).result)

\* the Send calls made on the stream for a phase
SendsOf(phase) == {i \in 1..Len(stream) : stream[i].op = "send" /\ stream[i].phase = phase}

\* absent a short-circuit, Process sends the phase for this request
BodyFollows == req.ProcessRequestBody /\ req.Body # ""

TrailersFollow == req.ProcessRequestTrailers /\ req.Trailers # <<>>

\* C24: a REQUEST_HEADERS message has end_of_stream = true iff neither a
\* REQUEST_BODY nor a REQUEST_TRAILERS message will follow for the request,
\* and a REQUEST_BODY message has end_of_stream = true iff no
\* REQUEST_TRAILERS message will follow it.
C24_EndOfStreamIffLast ==
    /\ \A i \in SendsOf(REQUEST_HEADERS) : stream[i].eos = (~BodyFollows /\ ~TrailersFollow)
    /\ \A i \in SendsOf(REQUEST_BODY) : stream[i].eos = ~TrailersFollow

\* what the code does: end_of_stream is computed from the two flags alone,
\* whether or not the body and the trailers are empty
C24_EndOfStreamFromFlags ==
    /\ \A i \in SendsOf(REQUEST_HEADERS) :
        stream[i].eos = (~req.ProcessRequestBody /\ ~req.ProcessRequestTrailers)
    /\ \A i \in SendsOf(REQUEST_BODY) : stream[i].eos = ~req.ProcessRequestTrailers
    /\ \A i \in SendsOf(REQUEST_TRAILERS) : ~stream[i].eos

\* Process returned without error for a request that asks for body
\* processing with an empty body: REQUEST_HEADERS was the only message, sent
\* with end_of_stream = false, and its response was not an immediate one
C24_Witness ==
    /\ Returned
    /\ Get(cret).err = ""
    /\ req.ProcessRequestBody /\ req.Body = ""
    /\ ~req.ProcessRequestTrailers
    /\ SentPhases = <<REQUEST_HEADERS>>
    /\ \E i \in SendsOf(REQUEST_HEADERS) : ~stream[i].eos
    /\ ~ImmediateAt(1)

StreamOpened == \E i \in 1..Len(stream) : stream[i].op = "open" /\ stream[i].ok

CloseSendCalls == {i \in 1..Len(stream) : stream[i].op = "close"}

CallFailed == \E i \in 1..Len(stream) : stream[i].op \in {"send", "recv"} /\ ~stream[i].ok

\* C25: a Process call that opened a stream and has returned has closed the
\* send side exactly once, on every return path.
C25_CloseSendOnEveryPath ==
    (Returned /\ StreamOpened) => Cardinality(CloseSendCalls) = 1

\* what the code does: the send side is closed once, as the last call,
\* when no Send or Recv failed, and never after a failure
C25_CloseSendUnlessFailure ==
    /\ Cardinality(CloseSendCalls) <= 1
    /\ (Returned /\ StreamOpened) =>
        /\ Cardinality(CloseSendCalls) = (IF CallFailed THEN 0 ELSE 1)
        /\ ~CallFailed => stream[Len(stream)].op = "close"

\* Process returned the error of a failed Send of REQUEST_BODY on a stream
\* it had opened, and never closed the send side
C25_Witness ==
    /\ Returned
    /\ StreamOpened
    /\ stream[Len(stream)] = Event("send", REQUEST_BODY, FALSE, BodyEndOfStream(req))
    /\ CloseSendCalls = {}
    /\ Get(cret).err = "failed to send request body"

-----------------------------------------------------------------------------
(* Properties of comparator.Compare *)

Compared == ~IsNil(report)

\* the response satisfies the expectation: comparing them gives no difference
ZeroDifferences(e, r) == \E ord \in WalkOrders : compareExpectation(e, r, ord) = <<>>

Satisfiable(e, rs) ==
    \E j \in 1..Len(rs) : rs[j].Phase = e.Phase /\ ZeroDifferences(e, rs[j].Response)

PhaseAbsent(e, rs) == \A j \in 1..Len(rs) : rs[j].Phase # e.Phase

\* C2: Compare returns Passed = true iff Unmatched is empty, and Unmatched
\* is, in input order, the expectations for which no response of the same
\* phase compares with zero differences; an expectation whose phase has no
\* response is in Unmatched and makes Passed false.
C2_UnmatchedExactly ==
    Compared =>
        LET res == Get(report)
        IN  /\ res.Passed = (res.Unmatched = <<>>)
            /\ res.Unmatched =
                SelectSeq(cmpExpectations, LAMBDA e : ~Satisfiable(e, cmpResponses))
            /\ \A i \in 1..Len(cmpExpectations) :
                PhaseAbsent(cmpExpectations[i], cmpResponses) =>
                    /\ cmpExpectations[i] \in SeqRange(res.Unmatched)
                    /\ ~res.Passed

\* C2 witness: of two expectations one is matched and the other, whose
\* phase has no response, is unmatched.
C2_Witness ==
    /\ Compared
    /\ Len(cmpExpectations) = 2
    /\ Len(Get(report).Matched) = 1
    /\ Len(Get(report).Unmatched) = 1
    /\ PhaseAbsent(Get(report).Unmatched[1], cmpResponses)
    /\ ~Get(report).Passed

\* the set-headers and remove-headers lists of a headers response, empty
\* when it carries no header mutation
ActualSetList(r) ==
    IF NoHeaderMutation(r.common) THEN <<>> ELSE Get(Get(r.common).HeaderMutation).SetHeaders

ActualRemoveList(r) ==
    IF NoHeaderMutation(r.common) THEN <<>> ELSE Get(Get(r.common).HeaderMutation).RemoveHeaders

\* key k appears in the set-headers list with value v
AppearsWithValue(list, k, v) ==
    \E i \in 1..Len(list) :
        ~IsNil(list[i].Header) /\ Get(list[i].Header) = [Key |-> k, Value |-> v]

\* every expected set-header appears with an equal value and every expected
\* remove-header appears in the remove list
MutationSatisfied(set, remove, r) ==
    /\ \A k \in DOMAIN set : AppearsWithValue(ActualSetList(r), k, set[k])
    /\ \A i \in 1..Len(remove) : remove[i] \in SeqRange(ActualRemoveList(r))

HeadersExpectationSatisfied(e, r) ==
    /\ MutationSatisfied(e.SetHeaders, e.RemoveHeaders, r)
    /\ (~IsNil(e.CommonResponse) /\ ~IsNil(Get(e.CommonResponse).HeaderMutation)) =>
        MutationSatisfied(Get(Get(e.CommonResponse).HeaderMutation).SetHeaders,
                          Get(Get(e.CommonResponse).HeaderMutation).RemoveHeaders, r)

\* one headers expectation compared with one headers response
HeadersCase ==
    /\ Compared
    /\ Len(cmpExpectations) = 1 /\ Len(cmpResponses) = 1
    /\ cmpExpectations[1].kind = "headers_response"
    /\ cmpResponses[1].Phase = cmpExpectations[1].Phase
    /\ cmpResponses[1].Response.kind \in {"request_headers", "response_headers"}

\* the expectation sets exactly one key, inline, and nothing else
SingleExpectedKey(e) ==
    /\ MapLen(e.SetHeaders) = 1
    /\ e.RemoveHeaders = <<>>
    /\ IsNil(e.CommonResponse)

\* C10: a headers expectation matches a headers response with zero
\* differences iff every expected set-header key appears in the response's
\* set-headers list with an equal value and every expected remove-header key
\* appears in its remove-headers list, for every actual list (repeated keys,
\* no header mutation); one expected key that the response sets to another
\* value gives Passed = false and exactly one Difference, carrying the
\* expected and the actual value.
C10_HeadersMatchIffPresent ==
    HeadersCase =>
        LET e == cmpExpectations[1]
            r == cmpResponses[1].Response
            res == Get(report)
        IN  /\ (res.Differences = <<>>) = HeadersExpectationSatisfied(e, r)
            /\ res.Passed = HeadersExpectationSatisfied(e, r)
            /\ \A k \in Keys :
                (/\ SingleExpectedKey(e) /\ k \in DOMAIN e.SetHeaders
                 /\ FirstWithKey(ActualSetList(r), k, 1) # 0
                 /\ ~AppearsWithValue(ActualSetList(r), k, e.SetHeaders[k])) =>
                    /\ ~res.Passed
                    /\ Len(res.Differences) = 1
                    /\ res.Differences[1].Expected = e.SetHeaders[k]
                    /\ AppearsWithValue(ActualSetList(r), k, res.Differences[1].Actual)

\* what the code decides instead: only the first entry carrying the key counts
FirstEntrySatisfied(set, remove, r) ==
    /\ \A k \in DOMAIN set :
        LET i == FirstWithKey(ActualSetList(r), k, 1)
        IN  i # 0 /\ Get(ActualSetList(r)[i].Header).Value = set[k]
    /\ \A i \in 1..Len(remove) : remove[i] \in SeqRange(ActualRemoveList(r))

\* C10, as the code behaves: the match is decided by the first set-headers
\* entry of each expected key
C10_FirstEntryDecides ==
    HeadersCase =>
        LET e == cmpExpectations[1]
            r == cmpResponses[1].Response
            nested == ~IsNil(e.CommonResponse) /\ ~IsNil(Get(e.CommonResponse).HeaderMutation)
        IN  Get(report).Passed =
                /\ FirstEntrySatisfied(e.SetHeaders, e.RemoveHeaders, r)
                /\ nested =>
                    FirstEntrySatisfied(Get(Get(e.CommonResponse).HeaderMutation).SetHeaders,
                                        Get(Get(e.CommonResponse).HeaderMutation).RemoveHeaders, r)

-----------------------------------------------------------------------------
(* Properties of the comparison of one expectation with one response *)

\* one expectation compared with one response of the same phase
SingleCase ==
    /\ Compared
    /\ Len(cmpExpectations) = 1 /\ Len(cmpResponses) = 1
    /\ cmpResponses[1].Phase = cmpExpectations[1].Phase

\* the response variants an expectation kind is for
AcceptedKinds(kind) ==
    CASE kind = "headers_response" -> {"request_headers", "response_headers"}
      [] kind = "body_response" -> {"request_body", "response_body"}
      [] kind = "trailers_response" -> {"request_trailers", "response_trailers"}
      [] kind = "immediate_response" -> {"immediate_response"}
      [] OTHER -> {}

\* a body expectation compared with a body response
BodyCase ==
    /\ SingleCase
    /\ cmpExpectations[1].kind = "body_response"
    /\ cmpResponses[1].Response.kind \in AcceptedKinds("body_response")

\* the body mutation of a body response, Nil when it carries none
ActualBodyMutation(r) == IF IsNil(r.common) THEN Nil ELSE Get(r.common).BodyMutation

ClearFlagSet(r) ==
    ~IsNil(ActualBodyMutation(r)) /\ GetClearBody(Get(ActualBodyMutation(r)))

MutatedBodyEquals(r, body) ==
    ~IsNil(ActualBodyMutation(r)) /\ GetBody(Get(ActualBodyMutation(r))) = body

\* C11: a body expectation with clear_body matches a body response only if
\* the response's body mutation has its clear-body flag set, and one with a
\* non-empty body only if the mutated body equals it, for every body response,
\* with or without a common response or a body mutation.
C11_BodyChecksEveryResponse ==
    BodyCase =>
        LET e == cmpExpectations[1]
            r == cmpResponses[1].Response
        IN  /\ (e.ClearBody /\ Get(report).Passed) => ClearFlagSet(r)
            /\ (e.Body # "" /\ Get(report).Passed) => MutatedBodyEquals(r, e.Body)

\* what the code does: the two checks are made, each on its own, when the
\* body response carries a common response, and none is made when it does not
C11_BodyChecksWithCommonResponse ==
    BodyCase =>
        LET e == cmpExpectations[1]
            r == cmpResponses[1].Response
            clearFails == e.ClearBody /\ ~ClearFlagSet(r)
            bodyFails == e.Body # "" /\ ~MutatedBodyEquals(r, e.Body)
        IN  IF IsNil(r.common)
            THEN Get(report).Passed /\ Get(report).Differences = <<>>
            ELSE /\ Get(report).Passed = (~clearFails /\ ~bodyFails)
                 /\ Len(Get(report).Differences) =
                        (IF clearFails THEN 1 ELSE 0) + (IF bodyFails THEN 1 ELSE 0)

\* a body expectation asking for clear_body and a body has matched a body
\* response that carries no common response
C11_Witness ==
    /\ BodyCase
    /\ cmpExpectations[1].ClearBody
    /\ cmpExpectations[1].Body # ""
    /\ IsNil(cmpResponses[1].Response.common)
    /\ Get(report).Passed

\* a trailers expectation compared with a trailers response
TrailersCase ==
    /\ SingleCase
    /\ cmpExpectations[1].kind = "trailers_response"
    /\ cmpResponses[1].Response.kind \in AcceptedKinds("trailers_response")

\* the lists of the header mutation mu, empty when there is none
SetListOf(mu) == IF IsNil(mu) THEN <<>> ELSE Get(mu).SetHeaders

RemoveListOf(mu) == IF IsNil(mu) THEN <<>> ELSE Get(mu).RemoveHeaders

TrailersSatisfied(e, r) ==
    /\ \A k \in DOMAIN e.SetTrailers : AppearsWithValue(SetListOf(r.hm), k, e.SetTrailers[k])
    /\ \A i \in 1..Len(e.RemoveTrailers) : e.RemoveTrailers[i] \in SeqRange(RemoveListOf(r.hm))

\* C12: a trailers expectation matches a trailers response iff every expected
\* set_trailers key appears in the response's trailer mutation with an equal
\* value and every expected remove_trailers key appears in its remove list; a
\* response with no trailer mutation sets and removes nothing.
C12_TrailersMatchIffPresent ==
    TrailersCase =>
        LET e == cmpExpectations[1]
            r == cmpResponses[1].Response
        IN  /\ Get(report).Passed = TrailersSatisfied(e, r)
            /\ (Get(report).Differences = <<>>) = TrailersSatisfied(e, r)

\* what the code does: only set_trailers is compared, and only against a
\* response that carries a trailer mutation
C12_SetTrailersOnly ==
    TrailersCase =>
        LET e == cmpExpectations[1]
            r == cmpResponses[1].Response
        IN  Get(report).Passed =
                \/ IsNil(r.hm)
                \/ \A k \in DOMAIN e.SetTrailers :
                      LET i == FirstWithKey(SetListOf(r.hm), k, 1)
                      IN  i # 0 /\ Get(SetListOf(r.hm)[i].Header).Value = e.SetTrailers[k]

\* a trailers expectation that sets and removes a trailer has matched a
\* trailers response with no trailer mutation
C12_Witness ==
    /\ TrailersCase
    /\ MapLen(cmpExpectations[1].SetTrailers) > 0
    /\ Len(cmpExpectations[1].RemoveTrailers) > 0
    /\ IsNil(cmpResponses[1].Response.hm)
    /\ Get(report).Passed

\* an immediate expectation compared with an immediate response
ImmediateCase ==
    /\ SingleCase
    /\ cmpExpectations[1].kind = "immediate_response"
    /\ cmpResponses[1].Response.kind = "immediate_response"

ActualStatusCode(r) == IF IsNil(r.status) THEN 0 ELSE Get(r.status)

StatusSatisfied(e, r) == e.StatusCode = 0 \/ e.StatusCode = ActualStatusCode(r)

ImmediateBodySatisfied(e, r) == e.Body = "" \/ e.Body = r.body

ImmediateHeadersSatisfied(e, r) ==
    \A k \in DOMAIN e.Headers : AppearsWithValue(SetListOf(r.headers), k, e.Headers[k])

\* C13: an immediate expectation matches an immediate response iff its status
\* code is 0 or the actual one (a missing status counting as 0), its body is
\* empty or the actual one, and every expected header is set in the response
\* with an equal value; a response with no headers sets none.
C13_ImmediateMatchIffAll ==
    ImmediateCase =>
        LET e == cmpExpectations[1]
            r == cmpResponses[1].Response
        IN  Get(report).Passed =
                /\ StatusSatisfied(e, r)
                /\ ImmediateBodySatisfied(e, r)
                /\ ImmediateHeadersSatisfied(e, r)

\* what the code does: the headers are compared only with a response that
\* carries a header mutation
C13_HeadersComparedIfPresent ==
    ImmediateCase =>
        LET e == cmpExpectations[1]
            r == cmpResponses[1].Response
        IN  Get(report).Passed =
                /\ StatusSatisfied(e, r)
                /\ ImmediateBodySatisfied(e, r)
                /\ IsNil(r.headers) \/ ImmediateHeadersSatisfied(e, r)

\* an immediate expectation with a header has matched an immediate response
\* that carries no headers
C13_Witness ==
    /\ ImmediateCase
    /\ MapLen(cmpExpectations[1].Headers) > 0
    /\ IsNil(cmpResponses[1].Response.headers)
    /\ Get(report).Passed

\* C14: an expectation of one of the four kinds compared with a same-phase
\* response of another kind gives exactly one Difference, with path
\* response_type, and no match, whatever the expectation specifies; with the
\* request-side or the response-side variant of its own kind it gives no
\* response_type difference.
C14_WrongKindOneDifference ==
    (SingleCase /\ cmpExpectations[1].kind # "none") =>
        LET e == cmpExpectations[1]
            r == cmpResponses[1].Response
            res == Get(report)
        IN  IF r.kind \notin AcceptedKinds(e.kind)
            THEN /\ res.Differences =
                        <<Difference(e.Phase, "response_type", e.kind, TypeName(r.kind))>>
                 /\ ~res.Passed
                 /\ res.Matched = <<>>
                 /\ res.Unmatched = <<e>>
            ELSE \A i \in 1..Len(res.Differences) : res.Differences[i].Path # "response_type"

\* a body expectation that specifies nothing was compared with an immediate
\* response: one response_type difference and no match
C14_Witness ==
    /\ SingleCase
    /\ cmpExpectations[1] = BodyExp(REQUEST_HEADERS, "", FALSE)
    /\ cmpResponses[1].Response.kind = "immediate_response"
    /\ Len(Get(report).Differences) = 1
    /\ ~Get(report).Passed

-----------------------------------------------------------------------------
(* Properties of Compare under reordering of the responses *)

\* the rearrangements of the indices of rs that move a response only to the
\* place of a response of the same phase
SamePhasePermutations(rs) ==
    {p \in Permutations(1..Len(rs)) : \A k \in 1..Len(rs) : rs[p[k]].Phase = rs[k].Phase}

Rearranged(rs, p) == [k \in 1..Len(rs) |-> rs[p[k]]]

\* C20: Compare on the responses rearranged within their phases gives the
\* same Passed and the same set of unmatched expectations, whatever order
\* the maps are walked in.
C20_OrderWithinPhaseIrrelevant ==
    Compared =>
        \A p \in SamePhasePermutations(cmpResponses) :
            \A ord \in CompareOrders(cmpExpectations, Rearranged(cmpResponses, p)) :
                LET other == Compare(cmpExpectations, Rearranged(cmpResponses, p), ord)
                IN  /\ other.Passed = Get(report).Passed
                    /\ SeqRange(other.Unmatched) = SeqRange(Get(report).Unmatched)

\* two different responses of one phase were compared with an expectation
\* that only the second satisfies and with one that neither satisfies
C20_Witness ==
    /\ Compared
    /\ Len(cmpResponses) = 2
    /\ cmpResponses[1].Phase = cmpResponses[2].Phase
    /\ cmpResponses[1] # cmpResponses[2]
    /\ Cardinality(SamePhasePermutations(cmpResponses)) = 2
    /\ Len(cmpExpectations) = 2
    /\ Len(Get(report).Matched) = 1
    /\ Get(report).Matched[1].Response = cmpResponses[2]
    /\ Len(Get(report).Unmatched) = 1
    /\ ~PhaseAbsent(Get(report).Unmatched[1], cmpResponses)

-----------------------------------------------------------------------------
(* Properties of the report of Compare *)

\* the reports Compare can give on the compared lists, one for each order the
\* runtime may walk the expected maps in
PossibleReports ==
    {Compare(cmpExpectations, cmpResponses, ord) :
        ord \in CompareOrders(cmpExpectations, cmpResponses)}

\* C21: a second Compare on the same expectations and responses gives the
\* same report: the same Passed, Matched, Unmatched, and the same Differences
\* in the same order, whatever the order of map iteration.
C21_CompareRepeatable ==
    Compared => \A again \in PossibleReports : again = Get(report)

\* what the code does: everything but the order of the differences of one
\* map is the same
C21_RepeatableUpToDifferenceOrder ==
    Compared =>
        \A again \in PossibleReports :
            /\ again.Passed = Get(report).Passed
            /\ again.Matched = Get(report).Matched
            /\ again.Unmatched = Get(report).Unmatched
            /\ Len(again.Differences) = Len(Get(report).Differences)
            /\ SeqRange(again.Differences) = SeqRange(Get(report).Differences)

\* an expectation that sets two headers was compared with a response whose
\* header mutation sets neither, and a second Compare reports the two
\* differences in the other order
C21_Witness ==
    /\ Compared
    /\ Len(cmpExpectations) = 1
    /\ DOMAIN cmpExpectations[1].SetHeaders = {"k1", "k2"}
    /\ Len(Get(report).Differences) = 2
    /\ \E again \in PossibleReports :
        /\ again.Differences[1] = Get(report).Differences[2]
        /\ again.Differences[2] = Get(report).Differences[1]
        /\ again.Differences # Get(report).Differences

\* two expectations that each set two headers were compared with a response
\* that sets neither, and the two maps were walked in different orders
WalksOrderedIndependently ==
    /\ Compared
    /\ Len(cmpExpectations) = 2
    /\ Len(cmpResponses) = 1
    /\ Len(Get(report).Differences) = 4
    /\ Get(report).Differences[1].Path = Get(report).Differences[4].Path
    /\ Get(report).Differences[2].Path = Get(report).Differences[3].Path
    /\ Get(report).Differences[1].Path # Get(report).Differences[2].Path

\* difference d comes from comparing expectation e with a response of rs
\* that has e's phase, and carries that phase
FromSamePhaseComparison(d, e, rs) ==
    \E j \in 1..Len(rs) :
        /\ rs[j].Phase = e.Phase
        /\ d.Phase = e.Phase
        /\ \E ord \in WalkOrders : d \in SeqRange(compareExpectation(e, rs[j].Response, ord))

\* C22: no matching across phases: the expectation and the response of every
\* Matched pair have the same phase, and every Difference of the report comes
\* from comparing an expectation with a response of its phase and carries
\* that phase.
C22_NoCrossPhaseMatching ==
    Compared =>
        LET res == Get(report)
        IN  /\ \A k \in 1..Len(res.Matched) :
                /\ res.Matched[k].Expectation.Phase = res.Matched[k].Response.Phase
                /\ res.Matched[k].Response \in SeqRange(cmpResponses)
                /\ res.Matched[k].Expectation \in SeqRange(cmpExpectations)
            /\ \A k \in 1..Len(res.Differences) :
                \E i \in 1..Len(cmpExpectations) :
                    FromSamePhaseComparison(res.Differences[k], cmpExpectations[i], cmpResponses)

\* an expectation that the response of another phase would satisfy was
\* compared with the response of its own phase only, and is unmatched with
\* one difference
C22_Witness ==
    /\ Compared
    /\ Len(cmpExpectations) = 1
    /\ Len(cmpResponses) = 2
    /\ cmpResponses[1].Phase = cmpExpectations[1].Phase
    /\ ~ZeroDifferences(cmpExpectations[1], cmpResponses[1].Response)
    /\ cmpResponses[2].Phase # cmpExpectations[1].Phase
    /\ ZeroDifferences(cmpExpectations[1], cmpResponses[2].Response)
    /\ Get(report).Unmatched = cmpExpectations
    /\ Len(Get(report).Differences) = 1
    /\ Get(report).Differences[1].Phase = cmpExpectations[1].Phase

\* the expectations whose phase no response has
AbsentPhaseExpectations ==
    {i \in 1..Len(cmpExpectations) : PhaseAbsent(cmpExpectations[i], cmpResponses)}

DifferencesOfPhase(res, phase) == {k \in 1..Len(res.Differences) : res.Differences[k].Phase = phase}

\* C26: an expectation whose phase has no response at all adds exactly one
\* Difference to the report, so Differences is not empty when there is such an
\* expectation.
C26_AbsentPhaseOneDifference ==
    Compared =>
        /\ AbsentPhaseExpectations # {} => Get(report).Differences # <<>>
        /\ \A i \in AbsentPhaseExpectations :
            Cardinality(DifferencesOfPhase(Get(report), cmpExpectations[i].Phase)) =
                Cardinality({j \in AbsentPhaseExpectations :
                                cmpExpectations[j].Phase = cmpExpectations[i].Phase})

\* what the code does: such an expectation is unmatched and fails the
\* comparison, and no Difference is recorded for it
C26_AbsentPhaseNoDifference ==
    Compared =>
        \A i \in AbsentPhaseExpectations :
            /\ cmpExpectations[i] \in SeqRange(Get(report).Unmatched)
            /\ ~Get(report).Passed
            /\ DifferencesOfPhase(Get(report), cmpExpectations[i].Phase) = {}

\* the only expectation has a phase that the only response does not have:
\* the comparison failed, with the expectation unmatched and no Difference
C26_Witness ==
    /\ Compared
    /\ Len(cmpExpectations) = 1
    /\ Len(cmpResponses) = 1
    /\ AbsentPhaseExpectations = {1}
    /\ ~Get(report).Passed
    /\ Get(report).Unmatched = cmpExpectations
    /\ Get(report).Differences = <<>>

\* a response of e's phase that does not satisfy e comes before one that does
EarlierMismatch(e, rs) ==
    \E j, k \in 1..Len(rs) :
        /\ j < k
        /\ rs[j].Phase = e.Phase /\ ~ZeroDifferences(e, rs[j].Response)
        /\ rs[k].Phase = e.Phase /\ ZeroDifferences(e, rs[k].Response)

\* C27: differences are reported only for expectations that end up
\* unmatched: every Difference is one of an unmatched expectation, and a
\* report with Passed = true has no Differences.
C27_DifferencesOnlyForUnmatched ==
    Compared =>
        LET res == Get(report)
        IN  /\ res.Passed => res.Differences = <<>>
            /\ \A k \in 1..Len(res.Differences) :
                \E i \in 1..Len(res.Unmatched) :
                    FromSamePhaseComparison(res.Differences[k], res.Unmatched[i], cmpResponses)

\* what the code does: a report without Differences is one where no
\* expectation met a same-phase response that did not satisfy it before it
\* was matched or the responses ran out
C27_DifferencesOfEveryMismatch ==
    Compared =>
        (Get(report).Differences = <<>>) <=>
            \A i \in 1..Len(cmpExpectations) :
                /\ ~EarlierMismatch(cmpExpectations[i], cmpResponses)
                /\ \/ Satisfiable(cmpExpectations[i], cmpResponses)
                   \/ PhaseAbsent(cmpExpectations[i], cmpResponses)

\* the only expectation was matched by the second response of its phase
\* after the first did not satisfy it: Passed is true and the report holds a
\* Difference
C27_Witness ==
    /\ Compared
    /\ Len(cmpExpectations) = 1
    /\ Len(cmpResponses) = 2
    /\ EarlierMismatch(cmpExpectations[1], cmpResponses)
    /\ Get(report).Passed
    /\ Get(report).Unmatched = <<>>
    /\ Len(Get(report).Matched) = 1
    /\ Len(Get(report).Differences) = 1

-----------------------------------------------------------------------------
(* Properties of snapshots *)

\* the expectations compared are the snapshot of the responses compared
SnapshotCase == cmpExpectations = convertToExpectations(cmpResponses)

\* C29: the snapshot of a result has one expectation per response, with the
\* same phases in the same order, and comparing the snapshot with the result
\* it was taken from passes with nothing unmatched.
C29_SnapshotMatchesItsResult ==
    SnapshotCase =>
        /\ Len(cmpExpectations) = Len(cmpResponses)
        /\ \A i \in 1..Len(cmpResponses) : cmpExpectations[i].Phase = cmpResponses[i].Phase
        /\ Compared =>
            /\ Get(report).Passed
            /\ Get(report).Unmatched = <<>>

\* some key is set more than once, to different values, by the header
\* mutation of response r
SetsKeyTwice(r) ==
    /\ r.kind \in {"request_headers", "response_headers"}
    /\ ~NoHeaderMutation(r.common)
    /\ LET list == Get(Get(r.common).HeaderMutation).SetHeaders
       IN  \E i, j \in 1..Len(list) :
            /\ i < j
            /\ ~IsNil(list[i].Header) /\ ~IsNil(list[j].Header)
            /\ Get(list[i].Header).Key = Get(list[j].Header).Key
            /\ Get(list[i].Header).Value # Get(list[j].Header).Value

\* what the code does: the phases are kept, and the comparison passes
\* unless a response sets a key twice to different values
C29_SnapshotMatchesUnlessKeyRepeated ==
    SnapshotCase =>
        /\ Len(cmpExpectations) = Len(cmpResponses)
        /\ \A i \in 1..Len(cmpResponses) : cmpExpectations[i].Phase = cmpResponses[i].Phase
        /\ Compared =>
            (Get(report).Passed <=>
                \A i \in 1..Len(cmpResponses) : ~SetsKeyTwice(cmpResponses[i].Response))

\* the snapshot of a response that sets k1 to "v" and then to "w" expects
\* "w", and the comparison with that response fails on the first entry
C29_Witness ==
    /\ SnapshotCase
    /\ Compared
    /\ Len(cmpResponses) = 1
    /\ SetsKeyTwice(cmpResponses[1].Response)
    /\ cmpExpectations[1].SetHeaders = [k \in {"k1"} |-> "w"]
    /\ ~Get(report).Passed
    /\ Get(report).Unmatched = cmpExpectations
    /\ Get(report).Differences =
           <<Difference(REQUEST_HEADERS, "set_headers[k1]", "w", "v")>>

-----------------------------------------------------------------------------
(* Properties of Runner.Run *)

Tests == 1..Len(testCases)

\* runTest was called for test case i
Started(i) == work[i].state \notin {"pending", "launched"}

\* runTest has a TestResult for test case i
HasResult(i) == work[i].state \in {"reporting", "finished", "recorded"}

\* between the start of runTest and the recording of its result
InExecution(i) ==
    work[i].state \in {"running", "resolving", "resolved", "writing", "reporting", "finished"}

\* runTest ran from StartTest to EndTest and its result was recorded
ExecutedAndRecorded(i) ==
    /\ work[i].state = "recorded"
    /\ Len(work[i].calls) >= 3
    /\ SubSeq(work[i].calls, 1, 2) = <<"StartTest", "Process">>
    /\ work[i].calls[Len(work[i].calls)] = "EndTest"

\* the entries of Results.Tests for test case i
RecordedEntries(i) ==
    {k \in 1..Len(results.Tests) : results.Tests[k].Name = testCases[i].testCase.Name}

DriverFailed(i) == ~IsNil(work[i].proc) /\ Get(work[i].proc).err # ""

DriverSucceeded(i) == ~IsNil(work[i].proc) /\ Get(work[i].proc).err = ""

\* the golden file was read and nothing could be done with it
ResolutionFailed(i) ==
    DriverSucceeded(i) /\ work[i].calls = <<"StartTest", "Process", "Read", "EndTest">>

RunReturnedUncancelled == rpc = "returned" /\ ~ctxDone

\* C5: when Run returns from a run that was not cancelled, it returns a nil
\* error, every selected test case was executed and is recorded exactly once
\* with the result runTest gave it, a test case whose Driver call or whose
\* golden file read failed is recorded as failed with its Error set, and the
\* counters add up to Total.
C5_FailureIsolated ==
    RunReturnedUncancelled =>
        /\ Get(ret).err = ""
        /\ Get(ret).results = results
        /\ results.Total = Len(testCases)
        /\ Len(results.Tests) = Len(testCases)
        /\ results.Passed + results.Failed = results.Total
        /\ results.Failed = Cardinality({i \in Tests : ~Get(work[i].result).Passed})
        /\ \A i \in Tests :
            /\ ExecutedAndRecorded(i)
            /\ Cardinality(RecordedEntries(i)) = 1
            /\ \A k \in RecordedEntries(i) :
                /\ results.Tests[k] = Get(work[i].result)
                /\ (DriverFailed(i) \/ ResolutionFailed(i)) =>
                       ~results.Tests[k].Passed /\ results.Tests[k].Error # ""

\* a parallel run returned with a Driver failure, a golden file read failure
\* and a passed test case
C5_Witness ==
    /\ RunReturnedUncancelled
    /\ runner.parallel > 1
    /\ \E i, j, k \in Tests :
        /\ DriverFailed(i)
        /\ ResolutionFailed(j)
        /\ Get(work[k].result).Passed
        /\ results.Failed = 2

RunTestEnded(i) == work[i].state \in {"finished", "recorded"}

\* the errors of a golden.Write that failed
WriteErrors == {"failed to create directory", "failed to write golden file"}

\* C6: with update-golden on, a test case that declares a golden file and
\* whose Driver call succeeded has had golden.Write called with the Driver's
\* result, has not been compared, and passed unless the write failed.
C6_UpdateGoldenWrites ==
    \A i \in Tests :
        (RunTestEnded(i) /\ UpdatesGolden(runner, testCases[i]) /\ DriverSucceeded(i)) =>
            /\ work[i].written = Some(Get(Get(work[i].proc).result))
            /\ "Compare" \notin SeqRange(work[i].calls)
            /\ \/ Get(work[i].result).Passed
               \/ Get(work[i].result).Error \in WriteErrors

\* what the code does: the same, for the test cases whose expectations resolve
\* (inline expectations, or a golden file that can be read) before the update
C6_UpdateGoldenWritesIfResolved ==
    \A i \in Tests :
        (RunTestEnded(i) /\ UpdatesGolden(runner, testCases[i]) /\ DriverSucceeded(i)
            /\ ~ResolutionFailed(i)) =>
            /\ work[i].written = Some(Get(Get(work[i].proc).result))
            /\ "Compare" \notin SeqRange(work[i].calls)
            /\ \/ Get(work[i].result).Passed
               \/ Get(work[i].result).Error \in WriteErrors

\* with update-golden on, a test case with only a golden file that does not
\* exist yet ended in a read error and nothing was written
C6_Witness ==
    /\ runner.updateGolden
    /\ \E i \in Tests :
        /\ RunTestEnded(i)
        /\ testCases[i].testCase.GoldenFile # <<>>
        /\ ResolutionFailed(i)
        /\ IsNil(work[i].written)
        /\ IsNil(golden[resolveGoldenPath(testCases[i])])

\* C7: no test case is started (StartTest, Driver call) once the run's context
\* has been cancelled.
C7_NoStartAfterCancel == \A i \in Tests : ~work[i].startedCancelled

\* what the code does: a loop that comes to its context check after the
\* cancellation lets no test case through; the test cases started after the
\* cancellation are those that were past the check
C7_NoLaunchOnceCheckSeesCancel ==
    [][\A i \in DOMAIN work :
          (ctxDone /\ rpc \in {"sequential", "parallel"} /\ work[i].state = "pending") =>
              (i \in DOMAIN work' /\ work'[i].state = "pending")]_vars

\* a sequential run started a test case after the cancellation, which came
\* between the context check of the loop and runTest
C7_Witness ==
    /\ runner.parallel <= 1
    /\ \E i \in Tests : work[i].startedCancelled /\ work[i].state = "running"

\* a parallel run started a test case after the cancellation and after Run
\* had returned
StartedAfterReturn ==
    /\ runner.parallel > 1
    /\ rpc = "returned"
    /\ \E i \in Tests : work[i].startedCancelled /\ work[i].state = "running"

\* C8: at most N test cases are in execution with parallelism N > 1, at most
\* one with parallelism N <= 1.
C8_BoundedExecution ==
    runner # <<>> =>
        Cardinality({i \in Tests : InExecution(i)})
            <= (IF runner.parallel > 1 THEN runner.parallel ELSE 1)

\* N test cases are in execution and the next one waits for a slot
C8_Witness ==
    /\ runner.parallel > 1
    /\ Cardinality({i \in Tests : InExecution(i)}) = runner.parallel
    /\ rpc = "acquire"
    /\ work[idx].state = "pending"

-----------------------------------------------------------------------------
(* Properties of Runner.getExpectations *)

HasInline(i) == Len(testCases[i].testCase.Expectations) > 0

HasGoldenFile(i) == testCases[i].testCase.GoldenFile # <<>>

GoldenReadable(i) ==
    /\ resolveGoldenPath(testCases[i]) \in DOMAIN golden
    /\ ~IsNil(golden[resolveGoldenPath(testCases[i])])

\* the result of test case i is that of comparing exps with what the Driver
\* returned
ComparedWith(i, exps) ==
    \E ord \in CompareOrders(exps, Get(Get(work[i].proc).result)) :
        LET c == Compare(exps, Get(Get(work[i].proc).result), ord)
            res == Get(work[i].result)
        IN  /\ res.Passed = c.Passed
            /\ res.Unmatched = c.Unmatched
            /\ res.Differences = c.Differences
            /\ res.Error = ""

\* C15: expectations resolve by priority.  With inline expectations the
\* golden file is never read and the inline ones are compared; otherwise, with
\* a golden file, the file is read and its expectations are compared, or the
\* test case ends with the read error; otherwise the list is empty, and the
\* test case passes whenever its Driver call succeeded.  (The comparisons are
\* those of a run that does not update golden files.)
C15_ResolutionPriority ==
    \A i \in Tests :
        (RunTestEnded(i) /\ DriverSucceeded(i)) =>
            LET calls == SeqRange(work[i].calls)
                res == Get(work[i].result)
            IN  /\ HasInline(i) =>
                    /\ "Read" \notin calls
                    /\ getExpectations(testCases[i], golden).expectations =
                           testCases[i].testCase.Expectations
                    /\ ~runner.updateGolden => ComparedWith(i, testCases[i].testCase.Expectations)
                /\ (~HasInline(i) /\ HasGoldenFile(i)) =>
                    /\ "Read" \in calls
                    /\ ~runner.updateGolden =>
                        IF GoldenReadable(i)
                        THEN ComparedWith(i, Get(golden[resolveGoldenPath(testCases[i])]))
                        ELSE /\ ~res.Passed
                             /\ res.Error = "failed to read golden file"
                             /\ "Compare" \notin calls
                /\ (~HasInline(i) /\ ~HasGoldenFile(i)) =>
                    /\ "Read" \notin calls
                    /\ getExpectations(testCases[i], golden) =
                           [expectations |-> <<>>, err |-> "", read |-> FALSE]
                    /\ res.Passed
                    /\ res.Error = ""

\* two test cases have ended after a successful Driver call: one with
\* inline expectations and a readable golden file that was not read, and
\* one with neither source that passed on a
\* response that sets another value
C15_Witness ==
    /\ ~runner.updateGolden
    /\ \E i, j \in Tests :
        /\ RunTestEnded(i) /\ DriverSucceeded(i)
        /\ HasInline(i) /\ HasGoldenFile(i) /\ GoldenReadable(i)
        /\ "Read" \notin SeqRange(work[i].calls)
        /\ RunTestEnded(j) /\ DriverSucceeded(j)
        /\ ~HasInline(j) /\ ~HasGoldenFile(j)
        /\ Get(work[j].proc).result = Some(ResultDiffering)
        /\ Get(work[j].result).Passed

-----------------------------------------------------------------------------
(* Properties of the validation of test cases *)

Invalid(i) == ValidateTestCase(testCases[i].testCase) # <<>>

\* runTest has called r.client.Process for test case i
DriverStarted(i) == "Process" \in SeqRange(work[i].calls)

\* C16: a test case with neither inline expectations nor a golden file is
\* rejected by ValidateTestCase, a test case with only a golden file is
\* accepted, and the Driver is never started for a test case that
\* ValidateTestCase rejects.
C16_InvalidNeverExecuted ==
    \A i \in Tests :
        /\ (~HasInline(i) /\ ~HasGoldenFile(i)) => Invalid(i)
        /\ (~HasInline(i) /\ HasGoldenFile(i)) => ~Invalid(i)
        /\ Invalid(i) => ~DriverStarted(i)

\* what the code does: ValidateTestCase decides as stated, and Run executes
\* the test cases it is given whether or not they are valid
C16_ValidationDecides ==
    \A i \in Tests :
        /\ (~HasInline(i) /\ ~HasGoldenFile(i)) =>
               ValidateTestCase(testCases[i].testCase) = <<"expectations">>
        /\ HasGoldenFile(i) => ~Invalid(i)
        /\ (rpc = "returned" /\ ~ctxDone) => ExecutedAndRecorded(i)

\* the Driver call of a test case that ValidateTestCase rejects has
\* returned, and the test case was recorded as passed
C16_Witness ==
    \E i \in Tests :
        /\ ~HasInline(i) /\ ~HasGoldenFile(i)
        /\ ValidateTestCase(testCases[i].testCase) = <<"expectations">>
        /\ DriverSucceeded(i)
        /\ ExecutedAndRecorded(i)
        /\ Get(work[i].result).Passed

-----------------------------------------------------------------------------
(* Properties of Runner.shouldRun *)

\* where a character of a character class that starts at j ends (0: malformed)
ClassCharEnd(p, j) ==
    IF j > Len(p) \/ p[j] \in {"-", "]"} THEN 0
    ELSE IF p[j] = "\\" THEN (IF j + 1 <= Len(p) THEN j + 2 ELSE 0)
    ELSE j + 1

\* where the character class whose ranges start at j ends, n ranges read
\* (0: malformed)
RECURSIVE ClassEnd(_, _, _)
ClassEnd(p, j, n) ==
    IF j <= Len(p) /\ p[j] = "]" /\ n > 0 THEN j + 1
    ELSE LET lo == ClassCharEnd(p, j)
         IN  IF lo = 0 THEN 0
             ELSE IF lo <= Len(p) /\ p[lo] = "-"
             THEN LET hi == ClassCharEnd(p, lo + 1)
                  IN  IF hi = 0 THEN 0 ELSE ClassEnd(p, hi, n + 1)
             ELSE ClassEnd(p, lo, n + 1)

\* the pattern syntax: terms '*', '?', c, '\' c and '[' ['^'] range+ ']',
\* a range being c, '\' c or lo '-' hi
RECURSIVE WellFormedFrom(_, _)
WellFormedFrom(p, i) ==
    IF i > Len(p) THEN TRUE
    ELSE IF p[i] = "\\" THEN i + 1 <= Len(p) /\ WellFormedFrom(p, i + 2)
    ELSE IF p[i] = "["
    THEN LET e == ClassEnd(p, IF i + 1 <= Len(p) /\ p[i + 1] = "^" THEN i + 2 ELSE i + 1, 0)
         IN  e # 0 /\ WellFormedFrom(p, e)
    ELSE WellFormedFrom(p, i + 1)

WellFormed(p) == WellFormedFrom(p, 1)

LowerCase(c) == IF c = "S" THEN "s" ELSE IF c = "T" THEN "t" ELSE c

LowerCased(tag) == [i \in 1..Len(tag) |-> LowerCase(tag[i])]

\* the name matches the filter as a pattern of filepath.Match
GlobMatches(filter, name) == ~Match(filter, name).err /\ Match(filter, name).matched

Eligible(r, tc) ==
    /\ r.filter = <<>> \/ GlobMatches(r.filter, tc.Name)
    /\ r.tags = <<>>
       \/ \E f \in SeqRange(r.tags), t \in SeqRange(tc.Tags) : LowerCased(f) = LowerCased(t)

ManifestTests ==
    UNION {{<<m, j>> : j \in 1..Len(manifests[m].TestCases)} : m \in DOMAIN manifests}

\* C9: shouldRun is true exactly for the test cases whose name matches the
\* name filter, if one is set, and one of whose tags equals a filter tag
\* ignoring case, if tags are set; it is false for every test case under a
\* malformed pattern; Run selects exactly these test cases and Total counts
\* them.
C9_ShouldRunSelects ==
    rpc \notin {"idle", "start"} =>
        /\ \A mj \in ManifestTests :
            LET tc == manifests[mj[1]].TestCases[mj[2]]
            IN  /\ shouldRun(runner, tc) <=> Eligible(runner, tc)
                /\ (runner.filter # <<>> /\ ~WellFormed(runner.filter)) => ~shouldRun(runner, tc)
        /\ results.Total =
               Cardinality({mj \in ManifestTests :
                               Eligible(runner, manifests[mj[1]].TestCases[mj[2]])})
        /\ {testCases[k].testCase : k \in Tests} =
               {manifests[mj[1]].TestCases[mj[2]] : mj \in
                   {x \in ManifestTests : Eligible(runner, manifests[x[1]].TestCases[x[2]])}}

\* of two test cases, only the one with a tag that equals the filter tag up to
\* case, and a name that matches the filter, was selected
C9_Witness ==
    /\ rpc \notin {"idle", "start"}
    /\ runner.filter # <<>>
    /\ runner.tags # <<>>
    /\ Len(manifests[1].TestCases) = 2
    /\ results.Total = 1
    /\ SeqRange(runner.tags) \cap SeqRange(testCases[1].testCase.Tags) = {}


\* C17: a malformed filter pattern is fatal to the run: no test case is
\* executed and Run returns the pattern error, unwrapped, as a non-nil error.
C17_InvalidFilterFatal ==
    (runner.filter # <<>> /\ ~WellFormed(runner.filter)) =>
        /\ \A i \in 1..Len(work) : work[i].state = "pending"
        /\ rpc = "returned" => Get(ret).err = "syntax error in pattern"

\* what the code does: with a malformed filter no test case is selected and
\* Run returns a nil error with empty results
C17_InvalidFilterSelectsNothing ==
    (runner.filter # <<>> /\ ~WellFormed(runner.filter)) =>
        /\ rpc # "start" => testCases = <<>>
        /\ rpc = "returned" =>
               /\ Get(ret).err = ""
               /\ Get(ret).results = [Total |-> 0, Passed |-> 0, Failed |-> 0, Skipped |-> 0,
                                      Tests |-> <<>>]

\* Run has returned from a run whose filter is malformed and whose manifest
\* holds two test cases
C17_Witness ==
    /\ rpc = "returned"
    /\ runner.filter # <<>>
    /\ ~WellFormed(runner.filter)
    /\ Len(manifests[1].TestCases) = 2
    /\ Get(ret).err = ""
    /\ Get(ret).results.Total = 0

-----------------------------------------------------------------------------
(* Properties of the events Run reports *)

\* how many times event e is in the calls of test case i
RECURSIVE CountIn(_, _)
CountIn(calls, e) ==
    IF calls = <<>> THEN 0
    ELSE (IF Head(calls) = e THEN 1 ELSE 0) + CountIn(Tail(calls), e)

EligibleCount ==
    Cardinality({mj \in ManifestTests : Eligible(runner, manifests[mj[1]].TestCases[mj[2]])})

CountersOf(res) ==
    [total |-> res.Total, passed |-> res.Passed, failed |-> res.Failed, skipped |-> res.Skipped]

SummaryOf(ev) ==
    [total |-> ev.total, passed |-> ev.passed, failed |-> ev.failed, skipped |-> ev.skipped]

\* one StartSuite with the number of eligible test cases, then at most one
\* EndSuite, reported when Run returns
SuiteEvents ==
    /\ Len(suite) \in {1, 2}
    /\ suite[1] = [event |-> "StartSuite", total |-> EligibleCount]
    /\ Len(suite) = 2 <=> rpc \in {"inEndSuite", "returned"}
    /\ Len(suite) = 2 => suite[2].event = "EndSuite"

\* a test case that was not started reported nothing; a started one reported
\* StartTest once, first, and EndTest at most once, last, when runTest ended
TestEvents(i) ==
    /\ ~Started(i) => work[i].calls = <<>>
    /\ Started(i) =>
        /\ CountIn(work[i].calls, "StartTest") = 1
        /\ Head(work[i].calls) = "StartTest"
        /\ CountIn(work[i].calls, "EndTest") = (IF RunTestEnded(i) THEN 1 ELSE 0)
        /\ RunTestEnded(i) => work[i].calls[Len(work[i].calls)] = "EndTest"

\* EndSuite came after the EndTest of every started test case, and its
\* summary is the counters of the Results that Run returned
EndSuiteLast ==
    Len(suite) = 2 =>
        /\ \A i \in Tests : Started(i) => CountIn(work[i].calls, "EndTest") = 1
        /\ SummaryOf(suite[2]) = CountersOf(results)

\* C18: the reporter sees one StartSuite with the number of eligible test
\* cases before any test event, one StartTest and later one EndTest for each
\* started test case, and one EndSuite after every EndTest whose summary is
\* the final counters of the returned Results, in sequential and parallel
\* runs, cancelled or not.
C18_ReporterEventOrder ==
    rpc \notin {"idle", "start"} =>
        /\ SuiteEvents
        /\ \A i \in Tests : TestEvents(i)
        /\ EndSuiteLast

\* what the code does: the same, with EndSuite last only when the run is
\* sequential or was not cancelled
C18_EventOrderUnlessCancelledParallel ==
    rpc \notin {"idle", "start"} =>
        /\ SuiteEvents
        /\ \A i \in Tests : TestEvents(i)
        /\ (runner.parallel <= 1 \/ ~ctxDone) => EndSuiteLast

\* a cancelled parallel run has reported EndSuite and returned while a test
\* case that reported StartTest has not reported EndTest, and another test
\* case was recorded after the summary was taken
C18_Witness ==
    /\ rpc = "returned"
    /\ runner.parallel > 1
    /\ ctxDone
    /\ Len(suite) = 2
    /\ \E i, j \in Tests :
        /\ work[i].calls = <<"StartTest", "Process">>
        /\ work[j].state = "recorded"
    /\ SummaryOf(suite[2]) # CountersOf(results)

-----------------------------------------------------------------------------
(* Properties of the outcome of the run command *)

\* runTest ended for test case i with a failed comparison or an error
EndedFailing(i) == RunTestEnded(i) /\ ~Get(work[i].result).Passed

\* what runTests returns when it reads the Results that Run returned; the
\* Results are shared with the workers, so the read sees their counters as
\* they are
CommandError == runTestsError(Get(ret).err, results)

\* C19: once Run has returned, the run command returns a non-nil error
\* whenever a test case that was executed failed its comparison or ended with
\* an error: every such test case is counted in Results.Failed.
C19_FailureReported ==
    rpc = "returned" =>
        /\ results.Failed = Cardinality({i \in Tests : EndedFailing(i)})
        /\ (\E i \in Tests : EndedFailing(i)) => CommandError # <<>>

\* what the code does: the test cases whose result was recorded are counted,
\* and they are all the executed ones when the run is sequential or was not
\* cancelled
C19_RecordedFailureReported ==
    rpc = "returned" =>
        /\ results.Failed =
               Cardinality({i \in Tests : work[i].state = "recorded" /\ EndedFailing(i)})
        /\ results.Failed > 0 => CommandError = <<"test(s) failed", results.Failed>>
        /\ (runner.parallel <= 1 \/ ~ctxDone) =>
               \A i \in Tests : RunTestEnded(i) => work[i].state = "recorded"

\* Run has returned from a cancelled parallel run; a test case whose Driver
\* call failed has reported EndTest and is not recorded, and the run command
\* returns nil
C19_Witness ==
    /\ rpc = "returned"
    /\ runner.parallel > 1
    /\ ctxDone
    /\ \E i \in Tests :
        /\ work[i].state = "finished"
        /\ DriverFailed(i)
        /\ Get(work[i].result).Error # ""
    /\ results.Failed = 0
    /\ CommandError = <<>>

-----------------------------------------------------------------------------
(* Properties of the sharing of Results *)

\* the worker of test case i has still to write Results: it was launched and
\* recordResult has not been called
WorkerPending(i) == work[i].state \notin {"pending", "recorded"}

\* Run is at the read of the counters for EndSuite, or has handed Results to
\* its caller
ResultsRead == rpc \in {"endSuite", "summing", "inEndSuite", "returned"}

\* C23: when Run reads the counters for EndSuite and when it has returned,
\* every started test case has finished and is recorded in Results, so no
\* worker writes Results during or after the read.
C23_NoWorkerAfterReturn ==
    ResultsRead =>
        \A i \in Tests :
            /\ ~WorkerPending(i)
            /\ Started(i) => Cardinality(RecordedEntries(i)) >= 1

\* what the code does: the same in sequential runs and in runs that were
\* not cancelled
C23_NoWorkerAfterUncancelledReturn ==
    (ResultsRead /\ (runner.parallel <= 1 \/ ~ctxDone)) =>
        \A i \in Tests :
            /\ ~WorkerPending(i)
            /\ Started(i) => Cardinality(RecordedEntries(i)) >= 1

\* Run has read Passed and then Failed for EndSuite while two workers
\* recorded a passed and then a failed result in between: the summary, 0
\* passed and 1 failed, is one the counters never held, and it differs from
\* the Results that Run returns
C23_Witness ==
    /\ rpc = "returned"
    /\ runner.parallel > 1
    /\ ctxDone
    /\ suite[2].passed = 0
    /\ suite[2].failed = 1
    /\ Len(results.Tests) = 2
    /\ results.Tests[1].Passed
    /\ ~results.Tests[2].Passed
    /\ Get(ret).results.Passed = 1

\* Run is about to read the counters for EndSuite while the worker of a
\* test case has ended runTest and is about to call recordResult, another is
\* inside runTest, and a third was launched and has still to call runTest
ReadWithWorkersPending ==
    /\ rpc = "endSuite"
    /\ runner.parallel > 1
    /\ ctxDone
    /\ \E i, j \in Tests :
        /\ work[i].state = "finished"
        /\ work[j].state = "running"

-----------------------------------------------------------------------------
(* Properties of the reporter callbacks of concurrent workers *)

\* the worker of test case i is inside r.reporter.EndTest
InCallback(i) == work[i].state = "reporting"

\* C28: the reporter is never entered by two workers at once: no callback
\* of one test case overlaps a callback of another.
C28_CallbacksNeverOverlap ==
    \A i, j \in Tests : (InCallback(i) /\ InCallback(j)) => i = j

\* what the code does: callbacks are exclusive in sequential runs, and in
\* parallel runs as many workers as the semaphore admits can be inside
\* EndTest together
C28_CallbacksBoundedBySemaphore ==
    /\ runner.parallel <= 1 => C28_CallbacksNeverOverlap
    /\ runner.parallel > 1 => Cardinality({i \in Tests : InCallback(i)}) <= runner.parallel

\* the workers of two test cases are inside r.reporter.EndTest at the same
\* time, neither having taken the mutex
C28_Witness ==
    /\ runner.parallel > 1
    /\ ~ctxDone
    /\ \E i, j \in Tests :
        /\ i # j
        /\ InCallback(i)
        /\ InCallback(j)
    /\ results.Tests = <<>>

-----------------------------------------------------------------------------
(* Properties of the counters of Results *)

\* how many of the recorded results satisfy P
CountTests(P(_)) == Cardinality({k \in 1..Len(results.Tests) : P(results.Tests[k])})

IsSkipped(t) == t.Skipped

IsPassed(t) == ~t.Skipped /\ t.Passed

IsFailed(t) == ~t.Skipped /\ ~t.Passed

\* C30: in every state of a run Passed + Failed + Skipped is the number of
\* entries of Results.Tests and at most Total; each recorded result is counted
\* in exactly one counter, Skipped if skipped, else Passed if passed, else
\* Failed; and when Run returns from a run that was not cancelled the sum is
\* Total, the number of eligible test cases.
C30_CountersConsistent ==
    rpc \notin {"idle", "start"} =>
        /\ results.Passed + results.Failed + results.Skipped = Len(results.Tests)
        /\ Len(results.Tests) <= results.Total
        /\ results.Skipped = CountTests(IsSkipped)
        /\ results.Passed = CountTests(IsPassed)
        /\ results.Failed = CountTests(IsFailed)
        /\ Len(results.Tests) = Cardinality({i \in Tests : work[i].state = "recorded"})
        /\ results.Total = EligibleCount
        /\ (rpc = "returned" /\ ~ctxDone) =>
               results.Passed + results.Failed + results.Skipped = results.Total

\* a parallel run of three test cases returned uncancelled with a passed and
\* a failed result, the second test case recorded before the first
C30_Witness ==
    /\ rpc = "returned"
    /\ ~ctxDone
    /\ runner.parallel > 1
    /\ results.Total = 3
    /\ results.Passed >= 1
    /\ results.Failed >= 1
    /\ results.Passed + results.Failed = 3
    /\ results.Tests[1].Name = testCases[2].testCase.Name

-----------------------------------------------------------------------------
(* Interleavings of Run and its workers *)

\* the semaphore holds one token per worker that has a slot, and the
\* WaitGroup counts the workers that have not called Done and the one that
\* Run is about to launch
SemaphoreAccounting ==
    runner # <<>> =>
        /\ sem = Cardinality({i \in 1..Len(work) : work[i].slot})
        /\ wg = Cardinality({i \in 1..Len(work) : work[i].inWg})
                   + (IF rpc = "acquire" THEN 1 ELSE 0)
        /\ sem <= (IF runner.parallel > 1 THEN runner.parallel ELSE 0)
        /\ \A i \in 1..Len(work) : work[i].slot => work[i].inWg

\* Run has returned from a cancelled run and a worker that was launched has
\* still to call runTest
LaunchedNotStartedAtReturn ==
    /\ rpc = "returned"
    /\ \E i \in Tests : work[i].state = "launched" /\ work[i].slot

\* Run is in wg.Wait() and the worker of the last test case, which has its
\* slot, has still to call runTest
WaitingForUnstartedWorker ==
    /\ rpc = "wait"
    /\ Len(testCases) > runner.parallel
    /\ work[Len(testCases)].state = "launched"

\* a result is in Results.Tests and its worker still holds its slot
RecordedHoldingSlot ==
    \E i \in Tests :
        /\ work[i].state = "recorded"
        /\ work[i].slot
        /\ sem = runner.parallel
        /\ rpc = "acquire"

\* the slot a worker gave back is taken again and the worker has still to
\* call wg.Done()
SlotTakenAgainBeforeDone ==
    \E i, j \in Tests :
        /\ work[i].state = "recorded" /\ ~work[i].slot /\ work[i].inWg
        /\ j > runner.parallel
        /\ work[j].slot
        /\ sem = runner.parallel

\* with update-golden on, the worker of one test case read the golden file
\* that the worker of another was writing, and could not parse it
ReadGoldenWrittenInPart ==
    /\ runner.updateGolden
    /\ \E i, j \in Tests :
        /\ i # j
        /\ work[i].state = "writing"
        /\ resolveGoldenPath(testCases[i]) = resolveGoldenPath(testCases[j])
        /\ HasResult(j)
        /\ Get(work[j].result).Error = "failed to parse golden file"

\* or read it empty, and resolved to no expectations
ReadGoldenTruncated ==
    /\ runner.updateGolden
    /\ \E i, j \in Tests :
        /\ i # j
        /\ work[i].state = "writing"
        /\ resolveGoldenPath(testCases[i]) = resolveGoldenPath(testCases[j])
        /\ golden[resolveGoldenPath(testCases[i])] = Some(<<>>)
        /\ work[j].state = "resolved"
        /\ work[j].calls = <<"StartTest", "Process", "Read">>

\* a write that failed has left the golden file, which held expectations,
\* empty
FailedWriteLeftFileEmpty ==
    \E i \in Tests :
        /\ HasResult(i)
        /\ Get(work[i].result).Error = "failed to write golden file"
        /\ work[i].calls = <<"StartTest", "Process", "Read", "Write", "EndTest">>
        /\ golden[resolveGoldenPath(testCases[i])] = Some(<<>>)

-----------------------------------------------------------------------------
(* Termination of Runner.Run *)

\* every test case that was launched is recorded, its worker has given its
\* slot back and has left the WaitGroup, and no slot of the semaphore is held
AllWorkersDone ==
    /\ \A i \in Tests :
        /\ work[i].state \in {"pending", "recorded"}
        /\ ~work[i].slot
        /\ ~work[i].inWg
    /\ sem = 0
    /\ wg = 0

\* C31: provided every Driver call returns, Run returns in both modes,
\* cancelled or not: the loop does not stay blocked on the semaphore, every
\* slot taken is released, every started test case reaches its recorded
\* outcome, and a test case whose Driver call was aborted ends as failed.
\* (Once Run has returned no test case is launched, so the workers that are
\* done stay done.)
C31_RunTerminates ==
    /\ <>(rpc = "returned" /\ AllWorkersDone)
    /\ [](\A i \in Tests : (RunTestEnded(i) /\ DriverFailed(i)) =>
              /\ ~Get(work[i].result).Passed
              /\ Get(work[i].result).Error = Get(work[i].proc).err)

\* a cancelled parallel run of more test cases than slots has returned, all
\* its workers are done, and a test case whose Driver call was aborted by
\* the cancellation is recorded as failed
C31_Witness ==
    /\ rpc = "returned"
    /\ ctxDone
    /\ runner.parallel > 1
    /\ Len(testCases) > runner.parallel
    /\ AllWorkersDone
    /\ \E i \in Tests :
        /\ work[i].state = "recorded"
        /\ Get(work[i].proc).err = "context canceled"
        /\ ~Get(work[i].result).Passed

-----------------------------------------------------------------------------
(* The execution of one test case *)

\* the states a test case's execution can move to from state s: the loop
\* lets it through, runTest starts and calls the Driver, the call returns,
\* the expectations are resolved, the golden file is written when it is to be
\* updated, the result is reported, runTest returns, the result is recorded
StatesAfter(s) ==
    CASE s = "pending" -> {"launched"}
      [] s = "launched" -> {"running"}
      [] s = "running" -> {"resolving", "reporting"}
      [] s = "resolving" -> {"resolved", "reporting"}
      [] s = "resolved" -> {"writing", "reporting"}
      [] s = "writing" -> {"reporting"}
      [] s = "reporting" -> {"finished"}
      [] s = "finished" -> {"recorded"}
      [] OTHER -> {}

\* test case i was started at most once, made one Driver call when started,
\* has a result from the return of that call on, was reported once when
\* runTest ended, and is in Results.Tests once, with that result, when recorded
OneExecution(i) ==
    /\ CountIn(work[i].calls, "StartTest") = (IF Started(i) THEN 1 ELSE 0)
    /\ CountIn(work[i].calls, "Process") = (IF Started(i) THEN 1 ELSE 0)
    /\ CountIn(work[i].calls, "EndTest") = (IF RunTestEnded(i) THEN 1 ELSE 0)
    /\ IsNil(work[i].proc) <=> work[i].state \in {"pending", "launched", "running"}
    /\ IsNil(work[i].result) <=> ~HasResult(i)
    /\ Cardinality(RecordedEntries(i)) = (IF work[i].state = "recorded" THEN 1 ELSE 0)
    /\ \A k \in RecordedEntries(i) : results.Tests[k] = Get(work[i].result)

\* a step moves test case i at most one state forward, and leaves alone what
\* its Driver call returned and its result once they are there
StepOfExecution(i) ==
    /\ i \in DOMAIN work'
    /\ work'[i].state \in {work[i].state} \cup StatesAfter(work[i].state)
    /\ ~IsNil(work[i].proc) => work'[i].proc = work[i].proc
    /\ ~IsNil(work[i].result) => work'[i].result = work[i].result
    /\ work[i].state = "recorded" =>
           /\ work'[i].calls = work[i].calls
           /\ \A k \in RecordedEntries(i) :
                  k \in 1..Len(results'.Tests) /\ results'.Tests[k] = results.Tests[k]

\* C32: within one Run every eligible test case goes pending -> running ->
\* one outcome (running from the start of runTest to the return of EndTest): it is started at most once, makes one Driver call of its own,
\* is reported and recorded once when it finishes, and its outcome never
\* changes afterwards.
C32_PerTestStateMachine ==
    /\ [](\A i \in Tests : OneExecution(i))
    /\ [][\A i \in DOMAIN work : StepOfExecution(i)]_vars

\* a parallel run returned with two recorded test cases of different outcomes
C32_Witness ==
    /\ rpc = "returned"
    /\ runner.parallel > 1
    /\ \E i, j \in Tests :
        /\ work[i].state = "recorded" /\ work[j].state = "recorded"
        /\ Get(work[i].result).Passed
        /\ ~Get(work[j].result).Passed
        /\ Cardinality(RecordedEntries(i)) = 1
        /\ Cardinality(RecordedEntries(j)) = 1

-----------------------------------------------------------------------------
(* Compare: the split of the expectations into Matched and Unmatched *)

\* the first response, in the order produced, of the phase of expectation e
\* that compares with zero differences; 0 when there is none
FirstSatisfying(e, rs) ==
    IF Satisfiable(e, rs)
    THEN CHOOSE j \in 1..Len(rs) :
            /\ rs[j].Phase = e.Phase /\ ZeroDifferences(e, rs[j].Response)
            /\ \A k \in 1..(j - 1) :
                   ~(rs[k].Phase = e.Phase /\ ZeroDifferences(e, rs[k].Response))
    ELSE 0

\* the positions of the expectations that some response satisfies
SatisfiedPositions ==
    {i \in 1..Len(cmpExpectations) : Satisfiable(cmpExpectations[i], cmpResponses)}

\* the k-th smallest member of the set S of positions
NthOf(S, k) == CHOOSE i \in S : Cardinality({j \in S : j < i}) = k - 1

\* C33: Compare splits the expectations: each one is once in Matched or once
\* in Unmatched, in input order, so the two lengths add up to the number of
\* expectations; a matched expectation is paired with the first response of
\* its phase that compares with zero differences; and one response may be
\* paired with several expectations.
C33_ComparePartitions ==
    Compared =>
        LET res == Get(report)
        IN  /\ Len(res.Matched) + Len(res.Unmatched) = Len(cmpExpectations)
            /\ Len(res.Matched) = Cardinality(SatisfiedPositions)
            /\ \A k \in 1..Len(res.Matched) :
                   LET e == cmpExpectations[NthOf(SatisfiedPositions, k)]
                   IN  res.Matched[k] =
                           MatchedExpectation(e, cmpResponses[FirstSatisfying(e, cmpResponses)])
            /\ res.Unmatched =
                   SelectSeq(cmpExpectations, LAMBDA e : ~Satisfiable(e, cmpResponses))

\* two expectations were both paired with the second response, the first
\* response of their phase having differences
C33_Witness ==
    /\ Compared
    /\ Len(cmpExpectations) = 2
    /\ Len(cmpResponses) = 2
    /\ cmpResponses[1] # cmpResponses[2]
    /\ cmpResponses[1].Phase = cmpResponses[2].Phase
    /\ FirstSatisfying(cmpExpectations[1], cmpResponses) = 2
    /\ FirstSatisfying(cmpExpectations[2], cmpResponses) = 2
    /\ Len(Get(report).Matched) = 2
    /\ Get(report).Matched[1].Response = cmpResponses[2]
    /\ Get(report).Matched[2].Response = cmpResponses[2]
    /\ Get(report).Differences # <<>>

-----------------------------------------------------------------------------
(* The order of execution and of Results.Tests *)

\* the test cases of the manifests from manifest m on, manifests in the order
\* given and test cases in the order declared
RECURSIVE DeclaredFrom(_)
DeclaredFrom(m) ==
    IF m > Len(manifests) THEN <<>>
    ELSE [j \in 1..Len(manifests[m].TestCases) |->
             testCaseWithManifest(manifests[m].TestCases[j], manifests[m])]
         \o DeclaredFrom(m + 1)

ManifestOrder == SelectSeq(DeclaredFrom(1), LAMBDA t : Eligible(runner, t.testCase))

SequentialMode == runner.parallel <= 1

RunSelected == rpc \notin {"idle", "start"}

\* every test case before one that the loop has let through is recorded
OneAtATimeInOrder ==
    \A i \in Tests :
        work[i].state # "pending" => \A j \in 1..(i - 1) : work[j].state = "recorded"

\* Results.Tests is the results of the first test cases of the manifest order
TestsInManifestOrder ==
    /\ Len(results.Tests) <= Len(testCases)
    /\ \A k \in 1..Len(results.Tests) :
        /\ work[k].state = "recorded"
        /\ results.Tests[k] = Get(work[k].result)
        /\ results.Tests[k].Name = ManifestOrder[k].testCase.Name

\* a step that records a test case appends its result to Results.Tests, and
\* no other step changes Results.Tests
AppendsWhenRecorded ==
    RunSelected =>
        LET recording == {i \in Tests : work[i].state # "recorded" /\ work'[i].state = "recorded"}
        IN  /\ Cardinality(recording) <= 1
            /\ \A i \in recording :
                   results'.Tests = Append(results.Tests, Get(work[i].result))
            /\ recording = {} => results'.Tests = results.Tests

\* C34: Run executes the eligible test cases of the manifests, in manifest
\* order; a sequential run starts a test case only when every earlier one is
\* recorded and Results.Tests is in manifest order; in every run, parallel
\* ones included, Results.Tests is in the order the results were recorded.
C34_ExecutionOrder ==
    /\ [](RunSelected => testCases = ManifestOrder)
    /\ []((RunSelected /\ SequentialMode) => (OneAtATimeInOrder /\ TestsInManifestOrder))
    /\ [][AppendsWhenRecorded]_vars

\* a sequential run over two manifests returned with the results of their
\* three test cases, which are not in the order of the names
C34_Witness ==
    /\ rpc = "returned"
    /\ SequentialMode
    /\ Len(manifests) = 2
    /\ Len(results.Tests) = 3
    /\ results.Tests[1].Name = manifests[1].TestCases[1].Name
    /\ results.Tests[2].Name = manifests[1].TestCases[2].Name
    /\ results.Tests[3].Name = manifests[2].TestCases[1].Name
    /\ results.Tests[3].Name = TestNames[1]

\* a parallel run whose Results.Tests is not in manifest order
ParallelOutOfManifestOrder ==
    /\ rpc = "returned"
    /\ ~SequentialMode
    /\ Len(results.Tests) = Len(testCases)
    /\ Len(results.Tests) >= 2
    /\ results.Tests[1].Name = testCases[2].testCase.Name

-----------------------------------------------------------------------------
(* What runTest touches *)

\* the step in which the Driver call of test case i returns an error
DriverFails(i) ==
    /\ work[i].state = "running"
    /\ work'[i].state = "reporting"
    /\ Get(work'[i].proc).err # ""

\* C35: for a test case whose Driver call failed the runner reads no golden
\* file, writes none (the golden files are unchanged, update-golden mode
\* included) and does not call Compare, and its result has the Error set,
\* Passed false and no Differences and no Unmatched; and for every test case
\* of a run the golden file is read at most once and written at most once.
C35_DriverFailureTouchesNothing ==
    /\ [](\A i \in Tests :
            /\ CountIn(work[i].calls, "Read") <= 1
            /\ CountIn(work[i].calls, "Write") <= 1
            /\ DriverFailed(i) =>
                /\ SeqRange(work[i].calls) \subseteq {"StartTest", "Process", "EndTest"}
                /\ IsNil(work[i].written)
                /\ HasResult(i)
                /\ Get(work[i].result) =
                       TestResult(testCases[i].testCase.Name, FALSE, Get(work[i].proc).err,
                                  <<>>, <<>>)
                /\ Get(work[i].result).Error # "")
    /\ [][\A i \in DOMAIN work : DriverFails(i) => golden' = golden]_vars

\* an update-golden run returned in which the Driver call failed for a test
\* case that declares a golden file, and the file is as it was: absent
C35_Witness ==
    /\ rpc = "returned"
    /\ runner.updateGolden
    /\ \E i \in Tests :
        /\ UpdatesGolden(runner, testCases[i])
        /\ ~HasInline(i)
        /\ DriverFailed(i)
        /\ work[i].state = "recorded"
        /\ work[i].calls = <<"StartTest", "Process", "EndTest">>
        /\ IsNil(golden[resolveGoldenPath(testCases[i])])
        /\ ~Get(work[i].result).Passed

-----------------------------------------------------------------------------
(* Skipped outcomes and test cases left out by a cancellation *)

NeverStarted == {i \in Tests : ~Started(i)}

\* C36: Run produces no skipped outcome: Results.Skipped is 0 and no result
\* has Skipped set; a test case is left unstarted at the return of Run only by
\* a cancellation, and such a test case is counted in Total and in none of
\* Passed, Failed and Skipped, so that a cancelled run can return with
\* Failed = 0 and Passed < Total.
C36_NoSkippedOutcome ==
    rpc \notin {"idle", "start"} =>
        /\ results.Skipped = 0
        /\ \A k \in 1..Len(results.Tests) : ~results.Tests[k].Skipped
        /\ \A i \in Tests : ~IsNil(work[i].result) => ~Get(work[i].result).Skipped
        /\ results.Total = Len(testCases)
        /\ \A i \in NeverStarted : RecordedEntries(i) = {} /\ IsNil(work[i].result)
        /\ results.Passed + results.Failed + results.Skipped
               <= results.Total - Cardinality(NeverStarted)
        /\ rpc = "returned" =>
               /\ NeverStarted # {} => ctxDone
               /\ Get(ret).results.Skipped = 0
               /\ suite[2].skipped = 0

\* a cancelled run returned with a passed test case, no failed one, and a
\* test case that was never started
C36_Witness ==
    /\ rpc = "returned"
    /\ ctxDone
    /\ NeverStarted # {}
    /\ results.Total = Len(testCases)
    /\ results.Passed >= 1
    /\ results.Failed = 0
    /\ results.Skipped = 0
    /\ results.Passed < results.Total
    /\ results.Passed + Cardinality(NeverStarted) = results.Total

=============================================================================
